---- MODULE Spec2Model ----
(***************************************************************************)
(* The clank8y credential broker: the token exchange endpoint that turns a *)
(* GitHub Actions OIDC identity token into a repository-scoped GitHub App  *)
(* installation token (website/server/.../token handler and its schemas).  *)
(*                                                                         *)
(* Strings are sequences of atoms (an atom is a run of characters that the *)
(* code never looks inside, e.g. "acme", "/", " "), so that template       *)
(* strings are concatenations, trim() removes whitespace atoms and         *)
(* String(n) produces decimal digits.  JavaScript values are tagged        *)
(* records, so that a string, a number and undefined stay distinct.        *)
(***************************************************************************)
EXTENDS Integers, Sequences, FiniteSets, TLC

\* ------------------------------------------------------------ JS values

Undefined == [t |-> "undefined"]
Null == [t |-> "null"]
Str(s) == [t |-> "string", v |-> s]
Num(n) == [t |-> "number", v |-> n]
Bool(b) == [t |-> "boolean", v |-> b]

IsString(x) == x.t = "string"
IsNumber(x) == x.t = "number"

Whitespace == {" "}

RECURSIVE TrimStart(_)
TrimStart(s) ==
  IF s # <<>> /\ Head(s) \in Whitespace THEN TrimStart(Tail(s)) ELSE s

RECURSIVE TrimEnd(_)
TrimEnd(s) ==
  IF s # <<>> /\ s[Len(s)] \in Whitespace
  THEN TrimEnd(SubSeq(s, 1, Len(s) - 1))
  ELSE s

\* String.prototype.trim
Trim(s) == TrimEnd(TrimStart(s))

Digits == <<"0", "1", "2", "3", "4", "5", "6", "7", "8", "9">>

\* String(n) of a non-negative integer: its decimal digits
RECURSIVE NumberToString(_)
NumberToString(n) ==
  IF n < 10 THEN <<Digits[n + 1]>>
  ELSE NumberToString(n \div 10) \o <<Digits[(n % 10) + 1]>>

\* String(x) of a string or a number
String(x) == IF IsNumber(x) THEN NumberToString(x.v) ELSE x.v

\* ------------------------------------------------------------ schemas

Fail == [success |-> FALSE]
Ok(output) == [success |-> TRUE, output |-> output]

\* v.pipe(v.string(), v.nonEmpty(...)): the pipe without its trim
trimmedNonEmptyString_NoTrim(input) ==
  IF ~IsString(input) THEN Fail
  ELSE IF input.v = <<>> THEN Fail
  ELSE Ok(input.v)

\* v.pipe(v.string(), v.trim(), v.nonEmpty(...))
trimmedNonEmptyString(input) ==
  IF ~IsString(input) THEN Fail
  ELSE IF Trim(input.v) = <<>> THEN Fail
  ELSE Ok(Trim(input.v))

\* a run_id schema without its trim
runIdSchema_NoTrim(input) ==
  IF ~(IsString(input) \/ IsNumber(input)) THEN Fail
  ELSE IF String(input) = <<>> THEN Fail
  ELSE Ok(String(input))

\* a run_id schema that accepts strings only
runIdSchema_StringOnly(input) == trimmedNonEmptyString(input)

\* v.pipe(v.union([v.string(), v.number()]), v.transform(String), v.trim(),
\*        v.nonEmpty(...))
runIdSchema(input) ==
  IF ~(IsString(input) \/ IsNumber(input)) THEN Fail
  ELSE IF Trim(String(input)) = <<>> THEN Fail
  ELSE Ok(Trim(String(input)))

\* v.safeParse(TokenRequestSchema, rawPayload); a body that is not JSON has
\* become null before it gets here
TokenRequestSchema(rawPayload) ==
  IF rawPayload.t # "object" THEN Fail
  ELSE LET o == trimmedNonEmptyString(rawPayload.owner)
           r == trimmedNonEmptyString(rawPayload.repo)
           i == runIdSchema(rawPayload.run_id)
       IN IF o.success /\ r.success /\ i.success
          THEN Ok([owner |-> o.output, repo |-> r.output, run_id |-> i.output])
          ELSE Fail

\* v.parse(OidcBasicClaimsSchema, payload): four string claims
OidcBasicClaimsSchema(payload) ==
  IF /\ IsString(payload.repository)
     /\ IsString(payload.repository_owner)
     /\ IsString(payload.event_name)
     /\ IsString(payload.runner_environment)
  THEN Ok([repository |-> payload.repository.v,
           repository_owner |-> payload.repository_owner.v,
           event_name |-> payload.event_name.v,
           runner_environment |-> payload.runner_environment.v])
  ELSE Fail

\* v.parse(OidcRefClaimsSchema, payload): ref, job_workflow_ref, run_id
OidcRefClaimsSchema(payload) ==
  LET i == runIdSchema(payload.run_id)
  IN IF IsString(payload.ref) /\ IsString(payload.job_workflow_ref) /\ i.success
     THEN Ok([ref |-> payload.ref.v,
              job_workflow_ref |-> payload.job_workflow_ref.v,
              run_id |-> i.output])
     ELSE Fail

\* ------------------------------------------------------------ constants

GITHUB_OIDC_ISSUER == "https://token.actions.githubusercontent.com"
CLANK8Y_OIDC_AUDIENCE == "clank8y"
CLANK8Y_WORKFLOW_FILE == <<".github", "/", "workflows", "/", "clank8y.yml">>

\* the permissions object of the mint request
MintPermissions ==
  [contents |-> "read", pull_requests |-> "write", issues |-> "write"]

\* ------------------------------------------------------------ pure helpers

BearerWords == {"Bearer", "bearer", "BEARER"}

\* the capture group of /^Bearer\s+(.+)$/i on a header that matches: \s+ is
\* greedy but leaves at least one character to (.+)
RECURSIVE BearerGroup(_)
BearerGroup(rest) ==
  IF Len(rest) > 1 /\ Head(rest) \in Whitespace
  THEN BearerGroup(Tail(rest))
  ELSE rest

\* getBearerToken without the trim of the capture group
getBearerToken_NoTrim(header) ==
  IF ~IsString(header) \/ header.v = <<>> THEN Null
  ELSE IF ~(/\ Len(header.v) >= 3
            /\ header.v[1] \in BearerWords
            /\ header.v[2] \in Whitespace)
       THEN Null
       ELSE Str(BearerGroup(Tail(Tail(header.v))))

\* getBearerToken(header): null, or the trimmed capture group (which may be
\* the empty string)
getBearerToken(header) ==
  IF ~IsString(header) \/ header.v = <<>> THEN Null
  ELSE IF ~(/\ Len(header.v) >= 3
            /\ header.v[1] \in BearerWords
            /\ header.v[2] \in Whitespace)
       THEN Null
       ELSE Str(Trim(BearerGroup(Tail(Tail(header.v)))))

\* a test that lets the empty string through
Falsy_NotAString(x) == ~IsString(x)

\* !oidcToken, !defaultBranch
Falsy(x) == ~IsString(x) \/ x.v = <<>>

\* jose's jwtVerify(token, JWKS, {issuer, audience}): the payload of a token
\* whose signature, issuer and audience verify, a throw otherwise
jwtVerify(token) ==
  IF /\ token.signature = "valid"
     /\ token.iss = GITHUB_OIDC_ISSUER
     /\ token.aud = CLANK8Y_OIDC_AUDIENCE
  THEN Ok(token.payload)
  ELSE Fail

\* `${owner}/${repo}`
expectedRepository(owner, repo) == owner \o <<"/">> \o repo

\* the trusted ref with the branch name hard-coded
trustedRef_Main(defaultBranch) == <<"refs", "/", "heads", "/", "main">>

\* `refs/heads/${defaultBranch}`
trustedRef(defaultBranch) == <<"refs", "/", "heads", "/">> \o defaultBranch

\* `${expectedRepository}/${CLANK8Y_WORKFLOW_FILE}@${trustedRef}`
expectedWorkflowRef(owner, repo, defaultBranch) ==
  expectedRepository(owner, repo) \o <<"/">> \o CLANK8Y_WORKFLOW_FILE
    \o <<"@">> \o trustedRef(defaultBranch)

\* phase 1 with one of its checks left out
verifyBasicClaimsWithout(skipped, oidcToken, owner, repo) ==
  LET verified == IF skipped = "signature" THEN Ok(oidcToken.payload)
                  ELSE jwtVerify(oidcToken)
  IN IF ~verified.success THEN Fail
     ELSE LET parsed == OidcBasicClaimsSchema(verified.output)
              claims == parsed.output
          IN IF ~parsed.success THEN Fail
             ELSE IF /\ skipped # "repository"
                     /\ claims.repository # owner \o <<"/">> \o repo THEN Fail
             ELSE IF claims.repository_owner # owner THEN Fail
             ELSE IF /\ skipped # "event_name"
                     /\ claims.event_name # <<"workflow_dispatch">> THEN Fail
             ELSE IF /\ skipped # "runner_environment"
                     /\ claims.runner_environment # <<"github-hosted">> THEN Fail
             ELSE Ok(verified.output)

verifyOidcTokenBasicClaims_Unverified(oidcToken, owner, repo) ==
  verifyBasicClaimsWithout("signature", oidcToken, owner, repo)

verifyOidcTokenBasicClaims_NoRepository(oidcToken, owner, repo) ==
  verifyBasicClaimsWithout("repository", oidcToken, owner, repo)

verifyOidcTokenBasicClaims_NoEventName(oidcToken, owner, repo) ==
  verifyBasicClaimsWithout("event_name", oidcToken, owner, repo)

verifyOidcTokenBasicClaims_NoRunner(oidcToken, owner, repo) ==
  verifyBasicClaimsWithout("runner_environment", oidcToken, owner, repo)

\* Phase 1.  Fail stands for a throw, Ok carries the returned payload.
verifyOidcTokenBasicClaims(oidcToken, owner, repo) ==
  LET verified == jwtVerify(oidcToken)
  IN IF ~verified.success THEN Fail
     ELSE LET parsed == OidcBasicClaimsSchema(verified.output)
              claims == parsed.output
          IN IF ~parsed.success THEN Fail
             ELSE IF claims.repository # expectedRepository(owner, repo) THEN Fail
             ELSE IF claims.repository_owner # owner THEN Fail
             ELSE IF claims.event_name # <<"workflow_dispatch">> THEN Fail
             ELSE IF claims.runner_environment # <<"github-hosted">> THEN Fail
             ELSE Ok(verified.output)

\* s.startsWith(prefix)
StartsWith(s, prefix) ==
  Len(s) >= Len(prefix) /\ SubSeq(s, 1, Len(prefix)) = prefix

\* phase 2 without the ref comparison
verifyOidcTokenRefClaims_NoRef(payload, owner, repo, defaultBranch, runId) ==
  LET parsed == OidcRefClaimsSchema(payload)
      claims == parsed.output
  IN /\ parsed.success
     /\ claims.job_workflow_ref = expectedWorkflowRef(owner, repo, defaultBranch)
     /\ claims.run_id = runId

\* phase 2 accepting any job_workflow_ref with the workflow's prefix
verifyOidcTokenRefClaims_Prefix(payload, owner, repo, defaultBranch, runId) ==
  LET parsed == OidcRefClaimsSchema(payload)
      claims == parsed.output
  IN /\ parsed.success
     /\ claims.ref = trustedRef(defaultBranch)
     /\ StartsWith(claims.job_workflow_ref,
                   expectedRepository(owner, repo) \o <<"/">> \o CLANK8Y_WORKFLOW_FILE
                     \o <<"@">>)
     /\ claims.run_id = runId

\* phase 2 without the run_id comparison
verifyOidcTokenRefClaims_NoRunId(payload, owner, repo, defaultBranch, runId) ==
  LET parsed == OidcRefClaimsSchema(payload)
      claims == parsed.output
  IN /\ parsed.success
     /\ claims.ref = trustedRef(defaultBranch)
     /\ claims.job_workflow_ref = expectedWorkflowRef(owner, repo, defaultBranch)

\* Phase 2.  TRUE when the function returns, FALSE when it throws.
verifyOidcTokenRefClaims(payload, owner, repo, defaultBranch, runId) ==
  LET parsed == OidcRefClaimsSchema(payload)
      claims == parsed.output
  IN IF ~parsed.success THEN FALSE
     ELSE IF claims.ref # trustedRef(defaultBranch) THEN FALSE
     ELSE IF claims.job_workflow_ref # expectedWorkflowRef(owner, repo, defaultBranch)
          THEN FALSE
     ELSE IF String(Str(claims.run_id)) # runId THEN FALSE
     ELSE TRUE

\* HTTPError.status(status, message)
HTTPError(status, message) == [status |-> status, body |-> [message |-> message]]

\* ------------------------------------------------------------ inputs

\* run ids range over 1..MaxRunId, as numbers and as decimal strings
MaxRunId == 2
RunIds == 1..MaxRunId

acme == <<"acme">>
evil == <<"evil">>
widgets == <<"widgets">>
gadgets == <<"gadgets">>
main == <<"main">>
dev == <<"dev">>
featureX == <<"feature-x">>

\* Authorization headers: absent, empty, another scheme, Bearer without a
\* token, Bearer with only whitespace, no whitespace after Bearer, and two
\* well-formed ones
Headers ==
  { Null,
    Str(<<>>),
    Str(<<"Basic", " ", "jwt">>),
    Str(<<"Bearer">>),
    Str(<<"Bearer", " ">>),
    Str(<<"Bearer", " ", " ">>),
    Str(<<"Bearer", "jwt">>),
    Str(<<"Bearer", " ", "jwt">>),
    Str(<<"bearer", " ", " ", "jwt", " ">>) }

Body(owner, repo, run_id) ==
  [t |-> "object", owner |-> owner, repo |-> repo, run_id |-> run_id]

\* Request bodies as event.req.json().catch(() => null) delivers them: null
\* for a body that is not JSON, every well-formed {owner, repo, run_id}, and
\* the body {acme, widgets, "1"} with one field padded, emptied, of another
\* type or missing
Bodies ==
  {Null}
  \cup { Body(Str(o), Str(r), Str(NumberToString(n))) :
           o \in {acme, evil}, r \in {widgets, gadgets}, n \in RunIds }
  \cup { Body(o, Str(widgets), Str(NumberToString(1))) :
           o \in {Str(<<" ", "acme", " ">>), Str(<<" ">>), Num(1), Undefined} }
  \cup { Body(Str(acme), r, Str(NumberToString(1))) :
           r \in {Str(<<"widgets", " ">>), Str(<<>>), Undefined} }
  \cup { Body(Str(acme), Str(widgets), i) :
           i \in {Num(n) : n \in RunIds}
                 \cup {Str(<<" ">> \o NumberToString(1) \o <<" ">>), Str(<<>>),
                       Str(<<" ">>), Null, Undefined, Bool(TRUE)} }

Payload(repository, repository_owner, event_name, runner_environment, ref, job_workflow_ref, run_id) ==
  [repository |-> repository, repository_owner |-> repository_owner,
   event_name |-> event_name, runner_environment |-> runner_environment,
   ref |-> ref, job_workflow_ref |-> job_workflow_ref, run_id |-> run_id]

\* the claims GitHub issues to the run 1 of acme/widgets' clank8y workflow,
\* dispatched on main from a hosted runner
GoodPayload ==
  Payload(Str(expectedRepository(acme, widgets)), Str(acme),
          Str(<<"workflow_dispatch">>), Str(<<"github-hosted">>),
          Str(trustedRef(main)), Str(expectedWorkflowRef(acme, widgets, main)),
          Str(NumberToString(1)))

WorkflowRefs ==
  { expectedWorkflowRef(acme, widgets, main),
    expectedWorkflowRef(acme, widgets, dev),
    expectedWorkflowRef(acme, widgets, featureX),
    expectedWorkflowRef(evil, widgets, main),
    expectedRepository(acme, widgets) \o <<"/", ".github", "/", "workflows", "/",
                                           "other.yml", "@">> \o trustedRef(main) }

RunIdClaims ==
  {Str(NumberToString(n)) : n \in RunIds} \cup {Num(n) : n \in RunIds}
    \cup {Str(<<" ">> \o NumberToString(1))}

\* every combination of well-typed claims
TypedPayloads ==
  { Payload(Str(rp), Str(ro), Str(<<ev>>), Str(<<re>>), Str(trustedRef(b)),
            Str(wf), id) :
      rp \in {expectedRepository(acme, widgets), expectedRepository(evil, widgets),
              expectedRepository(acme, gadgets)},
      ro \in {acme, evil},
      ev \in {"workflow_dispatch", "pull_request"},
      re \in {"github-hosted", "self-hosted"},
      b \in {main, dev, featureX},
      wf \in WorkflowRefs,
      id \in RunIdClaims }

\* what a claim of unexpected shape may be
Misshapen == {Undefined, Num(1), Bool(TRUE)}

\* GoodPayload with one claim absent or of another type (or, for run_id, empty)
MisshapenPayloads ==
  UNION { { [GoodPayload EXCEPT !.repository = x],
            [GoodPayload EXCEPT !.repository_owner = x],
            [GoodPayload EXCEPT !.event_name = x],
            [GoodPayload EXCEPT !.runner_environment = x],
            [GoodPayload EXCEPT !.ref = x],
            [GoodPayload EXCEPT !.job_workflow_ref = x] } : x \in Misshapen }
  \cup { [GoodPayload EXCEPT !.run_id = x] :
           x \in {Undefined, Null, Bool(TRUE), Str(<<>>), Str(<<" ">>)} }

Jwt(signature, iss, aud, payload) ==
  [signature |-> signature, iss |-> iss, aud |-> aud, payload |-> payload]

\* what the bearer token turns out to be when it is verified: a token GitHub
\* signed for this audience, with any payload, or GoodPayload under a bad
\* signature, another issuer or another audience
Jwts ==
  { Jwt("valid", GITHUB_OIDC_ISSUER, CLANK8Y_OIDC_AUDIENCE, p) :
      p \in TypedPayloads \cup MisshapenPayloads }
  \cup { Jwt("invalid", GITHUB_OIDC_ISSUER, CLANK8Y_OIDC_AUDIENCE, GoodPayload),
         Jwt("valid", "https://issuer.example", CLANK8Y_OIDC_AUDIENCE, GoodPayload),
         Jwt("valid", GITHUB_OIDC_ISSUER, "sts.amazonaws.com", GoodPayload) }

Thrown == [ok |-> FALSE]
Reply(data) == [ok |-> TRUE, data |-> data]

\* answers of GET /repos/{owner}/{repo}/installation
InstallationReplies == {Thrown} \cup {Reply([id |-> i]) : i \in {41, 42}}

\* answers of GET /repos/{owner}/{repo}
RepositoryReplies ==
  {Thrown}
  \cup {Reply([default_branch |-> b]) :
          b \in {Str(main), Str(dev), Str(<<>>), Null, Undefined}}

\* answers of POST /app/installations/{installation_id}/access_tokens
MintReplies ==
  {Thrown}
  \cup {Reply([token |-> t, expires_at |-> "2026-01-01T01:00:00Z"]) :
          t \in {"ghs_a", "ghs_b"}}

EnvNames == {"GITHUB_APP_ID", "GITHUB_APP_PRIVATE_KEY"}

\* ------------------------------------------------------------ state

VARIABLES
  env,             \* the names set in process.env
  pc,              \* per handler invocation: the await it is suspended at
  authorization,   \* the request's Authorization header
  requestBody,     \* the body the request carries
  rawPayload,      \* the request's body as event.req.json() delivers it
  oidcToken,       \* the bearer token as jwtVerify decodes it
  owner,           \* result.output.owner
  repo,            \* result.output.repo
  runId,           \* result.output.run_id
  oidcPayload,     \* the payload returned by phase 1
  installationId,  \* installation.data.id
  defaultBranch,   \* repository.default_branch when truthy
  tokenResponse,   \* the mint call's answer
  calls,           \* the platform API requests issued, in order
  replies,         \* the answers to them, in order
  response,        \* the HTTP response
  processEnv,      \* the action's process.env
  issued,          \* the number of identity tokens core.getIDToken returned
  acquire,         \* per call of acquireClank8yBotToken: where it is suspended
  attempt,         \* its loop variable
  lastError,       \* its lastError
  idToken,         \* the identity token of its current attempt
  exchanges,       \* the exchange requests it sent, in order, with their answers
  results,         \* how each of its calls of acquireClank8yBotTokenViaOIDC ended
  timers,          \* the delays it awaited, in ms, in order
  trace,           \* its calls of core.getIDToken and of fetch, in order
  outcome,         \* how it ended
  clank8yBotTokenPromise,  \* _clank8yBotTokenPromise: null, or the promise of a call
  written,         \* the number of assignments to _clank8yBotTokenPromise
  caller,          \* per call of getClank8yBotToken: where it is
  awaited,         \* the promise it awaits or returns
  received,        \* what it got
  oktokitPromise,  \* _oktokitPromise: null, or the promise of a call of clank8yOctokit
  octokit,         \* _octokit: null, or the client
  construct,       \* per call of clank8yOctokit: where it is
  built,           \* how it ended: with a client, or with an error
  clientLog,       \* the calls of core.setSecret and of new Octokit, in order
  tool,            \* per call of a tool that asks for the client: where it is
  toolAwaited,     \* the promise getOctokit returned to it
  toolResult,      \* what the tool returned
  run,             \* startClank8y: reviewing, or exited
  failed,          \* the message given to core.setFailed, or null
  stagedComments,  \* stagedComments: the staged findings, in order
  reviewedFiles,   \* reviewedFiles: the paths marked as reviewed
  staged,          \* every finding that was ever staged
  submit,          \* per call of submit-staged-review: where it is
  apiComments,     \* its apiComments
  submitResult,    \* what it returned
  reviews,         \* the reviews created on the pull request: their comments
  review,          \* the review function: where it is
  mcpStatus,       \* the status of the GitHub MCP server
  thrown,          \* the error the review function is about to throw, or null
  stops            \* the servers started and the calls of client.stop and github.stop, in order

locals == <<authorization, requestBody, rawPayload, oidcToken, owner, repo, runId, oidcPayload,
            installationId, defaultBranch, tokenResponse>>
brokerVars == <<env, pc, locals, calls, replies, response>>
memoVars == <<clank8yBotTokenPromise, written, caller, awaited, received>>
reviewVars == <<stagedComments, reviewedFiles, staged, submit, apiComments, submitResult,
                reviews>>
agentVars == <<review, mcpStatus, thrown, stops>>
mcpVars == <<reviewVars, agentVars>>
octokitVars == <<oktokitPromise, octokit, construct, built, clientLog, tool, toolAwaited,
                 toolResult, run, failed, mcpVars>>
clientVars == <<processEnv, acquire, attempt, lastError, idToken, issued, exchanges,
                results, timers, trace, outcome, memoVars, octokitVars>>
vars == <<brokerVars, clientVars>>

\* the handler invocations the server runs
Handlers == DOMAIN pc

NoResponse == [status |-> 0]

GetInstallation(o, r) ==
  [op |-> "GET /repos/{owner}/{repo}/installation", client |-> "app",
   owner |-> o, repo |-> r]

GetRepository(id, o, r) ==
  [op |-> "GET /repos/{owner}/{repo}", client |-> "installation",
   installationId |-> id, owner |-> o, repo |-> r]

\* a mint request that does not narrow the token to the repository
MintRequest_Unscoped(id, r) ==
  [op |-> "POST /app/installations/{installation_id}/access_tokens",
   client |-> "installation", installationId |-> id,
   installation_id |-> id, repositories |-> <<>>,
   permissions |-> MintPermissions]

MintRequest(id, r) ==
  [op |-> "POST /app/installations/{installation_id}/access_tokens",
   client |-> "installation", installationId |-> id,
   installation_id |-> id, repositories |-> <<r>>,
   permissions |-> MintPermissions]

\* the handler's throw statements, in the order of the source
NotConfigured == HTTPError(500, "Internal server error")
HeaderRejected == HTTPError(401, "Unauthorized")
BodyRejected == HTTPError(400, "Invalid request body")
BasicClaimsRejected == HTTPError(401, "Unauthorized")
InstallationFailed == HTTPError(500, "Failed to find app installation for repository")
RepositoryFailed == HTTPError(500, "Failed to resolve repository default branch")
NoDefaultBranch_Distinct == HTTPError(500, "Repository has no default branch configured")
NoDefaultBranch == HTTPError(500, "Failed to resolve repository default branch")
RefClaimsRejected_Detailed == HTTPError(401, "OIDC ref claim mismatch")
RefClaimsRejected == HTTPError(401, "Unauthorized")
MintFailed == HTTPError(500, "Failed to mint installation token")

\* throw HTTPError.status(...), or return: the invocation ends with a response
Respond(h, r) ==
  /\ response' = [response EXCEPT ![h] = r]
  /\ pc' = [pc EXCEPT ![h] = "done"]

\* ------------------------------------------------------------ acquisition client

OIDC_RETRY_ATTEMPTS == 3
\* a schedule with the first delay only
OIDC_RETRY_DELAYS_MS_Short == <<250>>
OIDC_RETRY_DELAYS_MS == <<250, 750>>

\* new Error(message), with its name
Error(name, message) == [t |-> "Error", name |-> name, message |-> message]

\* error instanceof Error
IsError(x) == x.t = "Error"

\* message.includes(needle), for the needles the code looks for: a message
\* is a sequence of parts, and a needle is one of them
Includes(message, needle) == \E i \in DOMAIN message : message[i] = needle

\* how a call ends: with a value, or with a thrown value
Returned(value) == [returned |-> TRUE, value |-> value]
Threw(error) == [returned |-> FALSE, error |-> error]

\* the promise that a call of acquireClank8yBotToken returns
Promise(a) == [t |-> "promise", of |-> a]

\* the names of process.env the client reads
ClientEnvNames ==
  {"ACTIONS_ID_TOKEN_REQUEST_URL", "ACTIONS_ID_TOKEN_REQUEST_TOKEN", "GH_TOKEN",
   "GITHUB_TOKEN"}

\* a truthy JavaScript value (of those process.env and a payload can hold)
Truthy(x) ==
  \/ IsString(x) /\ x.v # <<>>
  \/ IsNumber(x) /\ x.v # 0
  \/ x.t = "boolean" /\ x.v
  \/ x.t = "object"
  \/ x.t = "promise"

\* a test of the request URL alone
isOIDCAvailable_UrlOnly(penv) == Truthy(penv["ACTIONS_ID_TOKEN_REQUEST_URL"])

isOIDCAvailable(penv) ==
  /\ Truthy(penv["ACTIONS_ID_TOKEN_REQUEST_URL"])
  /\ Truthy(penv["ACTIONS_ID_TOKEN_REQUEST_TOKEN"])

\* a ?? b
Coalesce(a, b) == IF a \in {Undefined, Null} THEN b ELSE a

acquireClank8yBotTokenViaLocalFallback(penv) ==
  LET token == Coalesce(penv["GH_TOKEN"], penv["GITHUB_TOKEN"])
  IN IF Truthy(token)
     THEN Returned(token)
     ELSE Threw(Error("Error", <<"GitHub API token is missing">>))

\* a retry test that takes every Error for transient
shouldRetryOidcExchange_AnyError(error) == IsError(error)

\* a retry test that takes no rejection of the exchange call for transient
shouldRetryOidcExchange_NetworkOnly(error) ==
  IF ~IsError(error) THEN FALSE
  ELSE \/ error.name = "AbortError"
       \/ Includes(error.message, "fetch failed")
       \/ Includes(error.message, "ECONNRESET")
       \/ Includes(error.message, "ETIMEDOUT")

shouldRetryOidcExchange(error) ==
  IF ~IsError(error) THEN FALSE
  ELSE \/ error.name = "AbortError"
       \/ Includes(error.message, "fetch failed")
       \/ Includes(error.message, "ECONNRESET")
       \/ Includes(error.message, "ETIMEDOUT")
       \/ Includes(error.message, "Token exchange failed")

\* OIDC_RETRY_DELAYS_MS[attempt - 1] ?? 1000 (the array is indexed from 0)
RetryDelay(n) ==
  IF n \in DOMAIN OIDC_RETRY_DELAYS_MS THEN OIDC_RETRY_DELAYS_MS[n] ELSE 1000

\* a fetch Response: its status, status text and body
HttpResponse(status, statusText, body) ==
  [status |-> status, statusText |-> statusText, body |-> body]

\* response.ok
ResponseOk(r) == r.status \in 200..299

\* a body that is not JSON, and a body that is the JSON text of a value
NotJson(text) == [json |-> FALSE, text |-> text]
Json(value) == [json |-> TRUE, value |-> value]

\* response.text().catch(() => ''), as one part of a message
ResponseText(r) == IF r.body.json THEN "{...}" ELSE r.body.text

\* acquireClank8yBotTokenViaOIDC from the point where fetch has settled:
\* fetch threw, or it returned a response
ExchangeResult(fetched) ==
  IF ~fetched.returned THEN fetched
  ELSE LET r == fetched.value
       IN IF ~ResponseOk(r)
          THEN Threw(Error("Error",
                           <<"Token exchange failed", " (">>
                             \o NumberToString(r.status)
                             \o <<" ", r.statusText, "): ", ResponseText(r)>>))
          ELSE IF ~r.body.json
          THEN Threw(Error("SyntaxError", <<"Unexpected token">>))
          ELSE LET payload == r.body.value
               IN IF \/ ~Truthy(payload)
                     \/ ~IsString(payload.token)
                     \/ ~Truthy(payload.token)
                  THEN Threw(Error("Error", <<"Token exchange response is missing token">>))
                  ELSE Returned(payload.token)

\* ------------------------------------------------------------ client inputs

\* process.env: each name is unset, empty or set
ProcessEnvs ==
  [ClientEnvNames -> {Undefined, Str(<<>>), Str(<<"set">>)}]

\* how core.getIDToken ends: with a token (made fresh when it is issued), or
\* with an error
GetIDTokenThrows == {Error("Error", <<"Failed to get ID Token">>)}

\* what fetch throws: undici's TypeError, an abort, socket errors, and a
\* value that is no Error
FetchThrows ==
  { Error("TypeError", <<"fetch failed">>),
    Error("AbortError", <<"This operation was aborted">>),
    Error("Error", <<"read ", "ECONNRESET">>),
    Error("Error", <<"connect ", "ETIMEDOUT">>),
    Error("Error", <<"certificate has expired">>),
    Str(<<"aborted">>) }

\* a JSON payload {token: ...}
TokenPayload(token) == [t |-> "object", token |-> token]

\* what the broker (or whatever answers at the exchange URL) replies
ExchangeResponses ==
  { HttpResponse(400, "Bad Request", Json(TokenPayload(Undefined))),
    HttpResponse(401, "Unauthorized", Json(TokenPayload(Undefined))),
    HttpResponse(500, "Internal Server Error", NotJson("upstream error")),
    HttpResponse(200, "OK", NotJson("<html>")),
    HttpResponse(200, "OK", Json(Null)),
    HttpResponse(200, "OK", Json(TokenPayload(Undefined))),
    HttpResponse(200, "OK", Json(TokenPayload(Num(1)))),
    HttpResponse(200, "OK", Json(TokenPayload(Str(<<>>)))),
    HttpResponse(200, "OK", Json(TokenPayload(Str(<<"ghs_a">>)))),
    HttpResponse(200, "OK", Json(TokenPayload(Str(<<"ghs_b">>)))) }

FetchOutcomes ==
  {Threw(e) : e \in FetchThrows} \cup {Returned(r) : r \in ExchangeResponses}

\* ------------------------------------------------------------ initial states

\* no request has arrived at the given handler invocations
Requests(handlers) ==
  /\ pc = [h \in handlers |-> "idle"]
  /\ authorization = [h \in handlers |-> Undefined]
  /\ requestBody = [h \in handlers |-> Undefined]
  /\ rawPayload = [h \in handlers |-> Undefined]
  /\ oidcToken = [h \in handlers |-> Undefined]
  /\ owner = [h \in handlers |-> Undefined]
  /\ repo = [h \in handlers |-> Undefined]
  /\ runId = [h \in handlers |-> Undefined]
  /\ oidcPayload = [h \in handlers |-> Undefined]
  /\ installationId = [h \in handlers |-> Undefined]
  /\ defaultBranch = [h \in handlers |-> Undefined]
  /\ tokenResponse = [h \in handlers |-> Undefined]
  /\ calls = [h \in handlers |-> <<>>]
  /\ replies = [h \in handlers |-> <<>>]
  /\ response = [h \in handlers |-> NoResponse]

\* the calls of acquireClank8yBotToken and of getClank8yBotToken
Acquisitions == DOMAIN acquire
Callers == DOMAIN caller

\* none of the given calls has been made, and nothing is memoized
NotAcquiring(acquisitions, callers) ==
  /\ issued = 0
  /\ acquire = [a \in acquisitions |-> "idle"]
  /\ attempt = [a \in acquisitions |-> 0]
  /\ lastError = [a \in acquisitions |-> Null]
  /\ idToken = [a \in acquisitions |-> Undefined]
  /\ exchanges = [a \in acquisitions |-> <<>>]
  /\ results = [a \in acquisitions |-> <<>>]
  /\ timers = [a \in acquisitions |-> <<>>]
  /\ trace = [a \in acquisitions |-> <<>>]
  /\ outcome = [a \in acquisitions |-> Undefined]
  /\ clank8yBotTokenPromise = Null
  /\ written = 0
  /\ caller = [c \in callers |-> "idle"]
  /\ awaited = [c \in callers |-> Null]
  /\ received = [c \in callers |-> Undefined]
  /\ oktokitPromise = Null
  /\ octokit = Null
  /\ construct = [c \in callers |-> "idle"]
  /\ built = [c \in callers |-> Undefined]
  /\ clientLog = <<>>

\* the tools' calls that ask for the client have not been made, and the
\* review is running
NoTools(tools) ==
  /\ tool = [t \in tools |-> "idle"]
  /\ toolAwaited = [t \in tools |-> Null]
  /\ toolResult = [t \in tools |-> Undefined]
  /\ run = "reviewing"
  /\ failed = Null

\* nothing is staged, no submission was made, and the review function has
\* not been called
NoReview(submits) ==
  /\ stagedComments = <<>>
  /\ reviewedFiles = {}
  /\ staged = {}
  /\ submit = [s \in submits |-> "idle"]
  /\ apiComments = [s \in submits |-> <<>>]
  /\ submitResult = [s \in submits |-> Undefined]
  /\ reviews = <<>>
  /\ review = "idle"
  /\ mcpStatus = [state |-> "stopped"]
  /\ thrown = Null
  /\ stops = <<>>

\* the broker process starts with any subset of the app credentials
\* configured; each handler invocation serves one request
Start(handlers) ==
  /\ env \in SUBSET EnvNames
  /\ Requests(handlers)
  /\ processEnv = [n \in ClientEnvNames |-> Undefined]
  /\ NotAcquiring({}, {})
  /\ NoTools({})
  /\ NoReview({})

\* one request
Init == Start({1})

\* a handler that tests the application id only
HandleRequest_AppIdOnly(h) ==
  /\ pc[h] = "idle"
  /\ \E header \in Headers, body \in Bodies :
       /\ authorization' = [authorization EXCEPT ![h] = header]
       /\ requestBody' = [requestBody EXCEPT ![h] = body]
       /\ IF "GITHUB_APP_ID" \notin env
          THEN Respond(h, NotConfigured)
          ELSE IF Falsy(getBearerToken(header))
          THEN Respond(h, HeaderRejected)
          ELSE /\ pc' = [pc EXCEPT ![h] = "json"]
               /\ UNCHANGED response
  /\ UNCHANGED <<env, rawPayload, oidcToken, owner, repo, runId, oidcPayload,
                 installationId, defaultBranch, tokenResponse, calls, replies,
                 clientVars>>

\* a handler that validates the body before it looks at the header
HandleRequest_BodyFirst(h) ==
  /\ pc[h] = "idle"
  /\ \E header \in Headers, body \in Bodies :
       /\ authorization' = [authorization EXCEPT ![h] = header]
       /\ requestBody' = [requestBody EXCEPT ![h] = body]
       /\ IF ~(EnvNames \subseteq env)
          THEN Respond(h, NotConfigured)
          ELSE IF ~TokenRequestSchema(body).success
          THEN Respond(h, BodyRejected)
          ELSE IF Falsy(getBearerToken(header))
          THEN Respond(h, HeaderRejected)
          ELSE /\ pc' = [pc EXCEPT ![h] = "json"]
               /\ UNCHANGED response
  /\ UNCHANGED <<env, rawPayload, oidcToken, owner, repo, runId, oidcPayload,
                 installationId, defaultBranch, tokenResponse, calls, replies,
                 clientVars>>

\* A request arrives and the handler runs up to its first await: the
\* configuration check and the Authorization header.
HandleRequest(h) ==
  /\ pc[h] = "idle"
  /\ \E header \in Headers, body \in Bodies :
       /\ authorization' = [authorization EXCEPT ![h] = header]
       /\ requestBody' = [requestBody EXCEPT ![h] = body]
       /\ IF ~(EnvNames \subseteq env)
          THEN Respond(h, NotConfigured)
          ELSE IF Falsy(getBearerToken(header))
          THEN Respond(h, HeaderRejected)
          ELSE /\ pc' = [pc EXCEPT ![h] = "json"]
               /\ UNCHANGED response
  /\ UNCHANGED <<env, rawPayload, oidcToken, owner, repo, runId, oidcPayload,
                 installationId, defaultBranch, tokenResponse, calls, replies,
                 clientVars>>

\* await event.req.json() returns; the body is validated.  (The 400 message
\* also carries v.summarize(result.issues), which is left out.)
ParseBody(h) ==
  /\ pc[h] = "json"
  /\ LET body == requestBody[h]
         result == TokenRequestSchema(body)
     IN /\ rawPayload' = [rawPayload EXCEPT ![h] = body]
        /\ IF ~result.success
           THEN /\ Respond(h, BodyRejected)
                /\ UNCHANGED <<owner, repo, runId>>
           ELSE /\ owner' = [owner EXCEPT ![h] = Str(result.output.owner)]
                /\ repo' = [repo EXCEPT ![h] = Str(result.output.repo)]
                /\ runId' = [runId EXCEPT ![h] = Str(result.output.run_id)]
                /\ pc' = [pc EXCEPT ![h] = "jwtVerify"]
                /\ UNCHANGED response
  /\ UNCHANGED <<env, authorization, requestBody, oidcToken, oidcPayload, installationId,
                 defaultBranch, tokenResponse, calls, replies,
                 clientVars>>

\* a handler that answers 500 when the schema rejects the payload
VerifyBasicClaims_SchemaError(h) ==
  /\ pc[h] = "jwtVerify"
  /\ \E token \in Jwts :
       /\ oidcToken' = [oidcToken EXCEPT ![h] = token]
       /\ LET phase1 == verifyOidcTokenBasicClaims(token, owner[h].v, repo[h].v)
          IN IF ~phase1.success
             THEN /\ Respond(h, IF jwtVerify(token).success
                                    /\ ~OidcBasicClaimsSchema(token.payload).success
                                 THEN HTTPError(500, "Internal server error")
                                 ELSE BasicClaimsRejected)
                  /\ UNCHANGED <<oidcPayload, calls>>
             ELSE /\ oidcPayload' = [oidcPayload EXCEPT ![h] = phase1.output]
                  /\ calls' = [calls EXCEPT ![h] =
                                 Append(@, GetInstallation(owner[h].v, repo[h].v))]
                  /\ pc' = [pc EXCEPT ![h] = "getInstallation"]
                  /\ UNCHANGED response
  /\ UNCHANGED <<env, authorization, requestBody, rawPayload, owner, repo, runId,
                 installationId, defaultBranch, tokenResponse, replies,
                 clientVars>>

\* await jwtVerify(...) returns inside verifyOidcTokenBasicClaims; phase 1
\* runs, and on success the installation lookup is issued.  (createAppOctokit
\* cannot throw here: both names were found in process.env when the request
\* arrived.)
VerifyBasicClaims(h) ==
  /\ pc[h] = "jwtVerify"
  /\ \E token \in Jwts :
       /\ oidcToken' = [oidcToken EXCEPT ![h] = token]
       /\ LET phase1 == verifyOidcTokenBasicClaims(token, owner[h].v, repo[h].v)
          IN IF ~phase1.success
             THEN /\ Respond(h, BasicClaimsRejected)
                  /\ UNCHANGED <<oidcPayload, calls>>
             ELSE /\ oidcPayload' = [oidcPayload EXCEPT ![h] = phase1.output]
                  /\ calls' = [calls EXCEPT ![h] =
                                 Append(@, GetInstallation(owner[h].v, repo[h].v))]
                  /\ pc' = [pc EXCEPT ![h] = "getInstallation"]
                  /\ UNCHANGED response
  /\ UNCHANGED <<env, authorization, requestBody, rawPayload, owner, repo, runId,
                 installationId, defaultBranch, tokenResponse, replies,
                 clientVars>>

\* a handler that repeats a failed installation lookup once
ResolveInstallation_Retry(h) ==
  /\ pc[h] = "getInstallation"
  /\ \E reply \in InstallationReplies :
       /\ replies' = [replies EXCEPT ![h] = Append(@, reply)]
       /\ IF ~reply.ok /\ Len(calls[h]) >= 2
          THEN /\ Respond(h, InstallationFailed)
               /\ UNCHANGED <<installationId, calls>>
          ELSE IF ~reply.ok
          THEN /\ calls' = [calls EXCEPT ![h] =
                              Append(@, GetInstallation(owner[h].v, repo[h].v))]
               /\ UNCHANGED <<installationId, pc, response>>
          ELSE /\ installationId' = [installationId EXCEPT ![h] = Num(reply.data.id)]
               /\ calls' = [calls EXCEPT ![h] =
                              Append(@, GetRepository(reply.data.id, owner[h].v, repo[h].v))]
               /\ pc' = [pc EXCEPT ![h] = "getRepository"]
               /\ UNCHANGED response
  /\ UNCHANGED <<env, authorization, requestBody, rawPayload, oidcToken, owner, repo, runId,
                 oidcPayload, defaultBranch, tokenResponse,
                 clientVars>>

\* the installation lookup answers; on success the repository is fetched with
\* the installation-scoped client
ResolveInstallation(h) ==
  /\ pc[h] = "getInstallation"
  /\ \E reply \in InstallationReplies :
       /\ replies' = [replies EXCEPT ![h] = Append(@, reply)]
       /\ IF ~reply.ok
          THEN /\ Respond(h, InstallationFailed)
               /\ UNCHANGED <<installationId, calls>>
          ELSE /\ installationId' = [installationId EXCEPT ![h] = Num(reply.data.id)]
               /\ calls' = [calls EXCEPT ![h] =
                              Append(@, GetRepository(reply.data.id, owner[h].v, repo[h].v))]
               /\ pc' = [pc EXCEPT ![h] = "getRepository"]
               /\ UNCHANGED response
  /\ UNCHANGED <<env, authorization, requestBody, rawPayload, oidcToken, owner, repo, runId,
                 oidcPayload, defaultBranch, tokenResponse,
                 clientVars>>

\* the default branch an earlier request fetched, if there is one
CachedBranch(reply) ==
  IF \E g \in Handlers : IsString(defaultBranch[g])
  THEN defaultBranch[CHOOSE g \in Handlers : IsString(defaultBranch[g])]
  ELSE reply.data.default_branch

\* a handler that keeps the default branch across requests
ResolveDefaultBranch_Cached(h) ==
  /\ pc[h] = "getRepository"
  /\ \E reply \in RepositoryReplies :
       /\ replies' = [replies EXCEPT ![h] = Append(@, reply)]
       /\ IF ~reply.ok
          THEN /\ Respond(h, RepositoryFailed)
               /\ UNCHANGED <<defaultBranch, calls>>
          ELSE IF Falsy(reply.data.default_branch)
          THEN /\ Respond(h, NoDefaultBranch)
               /\ UNCHANGED <<defaultBranch, calls>>
          ELSE /\ defaultBranch' = [defaultBranch EXCEPT ![h] = CachedBranch(reply)]
               /\ IF ~verifyOidcTokenRefClaims(oidcPayload[h], owner[h].v, repo[h].v,
                                               CachedBranch(reply).v, runId[h].v)
                  THEN /\ Respond(h, RefClaimsRejected)
                       /\ UNCHANGED calls
                  ELSE /\ calls' = [calls EXCEPT ![h] =
                                      Append(@, MintRequest(installationId[h].v, repo[h].v))]
                       /\ pc' = [pc EXCEPT ![h] = "mintToken"]
                       /\ UNCHANGED response
  /\ UNCHANGED <<env, authorization, requestBody, rawPayload, oidcToken, owner, repo, runId,
                 oidcPayload, installationId, tokenResponse,
                 clientVars>>

\* the payload another request verified last, if there is one
SharedPayload(h) ==
  LET others == {g \in Handlers \ {h} : oidcPayload[g] # Undefined}
  IN IF others = {} THEN oidcPayload[h]
     ELSE oidcPayload[CHOOSE g \in others : TRUE]

\* a handler that keeps the verified payload in a variable of the module
ResolveDefaultBranch_SharedPayload(h) ==
  /\ pc[h] = "getRepository"
  /\ \E reply \in RepositoryReplies :
       /\ replies' = [replies EXCEPT ![h] = Append(@, reply)]
       /\ IF ~reply.ok
          THEN /\ Respond(h, RepositoryFailed)
               /\ UNCHANGED <<defaultBranch, calls>>
          ELSE IF Falsy(reply.data.default_branch)
          THEN /\ Respond(h, NoDefaultBranch)
               /\ UNCHANGED <<defaultBranch, calls>>
          ELSE /\ defaultBranch' = [defaultBranch EXCEPT ![h] = reply.data.default_branch]
               /\ IF ~verifyOidcTokenRefClaims(SharedPayload(h), owner[h].v, repo[h].v,
                                               reply.data.default_branch.v, runId[h].v)
                  THEN /\ Respond(h, RefClaimsRejected)
                       /\ UNCHANGED calls
                  ELSE /\ calls' = [calls EXCEPT ![h] =
                                      Append(@, MintRequest(installationId[h].v, repo[h].v))]
                       /\ pc' = [pc EXCEPT ![h] = "mintToken"]
                       /\ UNCHANGED response
  /\ UNCHANGED <<env, authorization, requestBody, rawPayload, oidcToken, owner, repo, runId,
                 oidcPayload, installationId, tokenResponse,
                 clientVars>>

\* the repository fetch answers; the default branch is taken when truthy,
\* phase 2 runs against it, and on success the mint request is issued
ResolveDefaultBranch(h) ==
  /\ pc[h] = "getRepository"
  /\ \E reply \in RepositoryReplies :
       /\ replies' = [replies EXCEPT ![h] = Append(@, reply)]
       /\ IF ~reply.ok
          THEN /\ Respond(h, RepositoryFailed)
               /\ UNCHANGED <<defaultBranch, calls>>
          ELSE IF Falsy(reply.data.default_branch)
          THEN /\ Respond(h, NoDefaultBranch)
               /\ UNCHANGED <<defaultBranch, calls>>
          ELSE /\ defaultBranch' = [defaultBranch EXCEPT ![h] = reply.data.default_branch]
               /\ IF ~verifyOidcTokenRefClaims(oidcPayload[h], owner[h].v, repo[h].v,
                                               reply.data.default_branch.v, runId[h].v)
                  THEN /\ Respond(h, RefClaimsRejected)
                       /\ UNCHANGED calls
                  ELSE /\ calls' = [calls EXCEPT ![h] =
                                      Append(@, MintRequest(installationId[h].v, repo[h].v))]
                       /\ pc' = [pc EXCEPT ![h] = "mintToken"]
                       /\ UNCHANGED response
  /\ UNCHANGED <<env, authorization, requestBody, rawPayload, oidcToken, owner, repo, runId,
                 oidcPayload, installationId, tokenResponse,
                 clientVars>>

\* the token an earlier request for the same repository was given, if any
MintedBefore(h, reply) ==
  LET earlier == {g \in Handlers : /\ pc[g] = "done"
                                    /\ response[g].status = 200
                                    /\ repo[g] = repo[h]}
  IN IF earlier = {} THEN reply.data.token
     ELSE response[CHOOSE g \in earlier : TRUE].body.token

\* a handler that answers a repeated request with the token it gave before
MintToken_Deduplicated(h) ==
  /\ pc[h] = "mintToken"
  /\ \E reply \in MintReplies :
       /\ tokenResponse' = [tokenResponse EXCEPT ![h] = reply]
       /\ replies' = [replies EXCEPT ![h] = Append(@, reply)]
       /\ IF ~reply.ok
          THEN Respond(h, MintFailed)
          ELSE Respond(h, [status |-> 200,
                           body |-> [token |-> MintedBefore(h, reply),
                                     expires_at |-> reply.data.expires_at]])
  /\ UNCHANGED <<env, authorization, requestBody, rawPayload, oidcToken, owner, repo, runId,
                 oidcPayload, installationId, defaultBranch, calls,
                 clientVars>>

\* the mint request answers; its token and expiry are returned
MintToken(h) ==
  /\ pc[h] = "mintToken"
  /\ \E reply \in MintReplies :
       /\ tokenResponse' = [tokenResponse EXCEPT ![h] = reply]
       /\ replies' = [replies EXCEPT ![h] = Append(@, reply)]
       /\ IF ~reply.ok
          THEN Respond(h, MintFailed)
          ELSE Respond(h, [status |-> 200,
                           body |-> [token |-> reply.data.token,
                                     expires_at |-> reply.data.expires_at]])
  /\ UNCHANGED <<env, authorization, requestBody, rawPayload, oidcToken, owner, repo, runId,
                 oidcPayload, installationId, defaultBranch, calls,
                 clientVars>>

Next ==
  \/ \E h \in Handlers : HandleRequest(h)
  \/ \E h \in Handlers : ParseBody(h)
  \/ \E h \in Handlers : VerifyBasicClaims(h)
  \/ \E h \in Handlers : ResolveInstallation(h)
  \/ \E h \in Handlers : ResolveDefaultBranch(h)
  \/ \E h \in Handlers : MintToken(h)

Spec == Init /\ [][Next]_vars

\* ------------------------------------------------------------ client actions

\* a call of acquireClank8yBotToken returns or throws
Settle(a, result) ==
  /\ outcome' = [outcome EXCEPT ![a] = result]
  /\ acquire' = [acquire EXCEPT ![a] = "settled"]

\* a catch block without the test of the attempt number
Catch_NoLimit(a, error) ==
  /\ lastError' = [lastError EXCEPT ![a] = error]
  /\ results' = [results EXCEPT ![a] = Append(@, Threw(error))]
  /\ IF ~shouldRetryOidcExchange(error)
     THEN /\ Settle(a, Threw(error))
          /\ UNCHANGED timers
     ELSE /\ timers' = [timers EXCEPT ![a] = Append(@, RetryDelay(attempt[a]))]
          /\ acquire' = [acquire EXCEPT ![a] = "delay"]
          /\ UNCHANGED outcome

\* a catch block that keeps and throws the first error
Catch_FirstError(a, error) ==
  /\ lastError' = [lastError EXCEPT ![a] = IF lastError[a] = Null THEN error ELSE lastError[a]]
  /\ results' = [results EXCEPT ![a] = Append(@, Threw(error))]
  /\ IF ~shouldRetryOidcExchange(error) \/ attempt[a] = OIDC_RETRY_ATTEMPTS
     THEN /\ Settle(a, Threw(IF lastError[a] = Null THEN error ELSE lastError[a]))
          /\ UNCHANGED timers
     ELSE /\ timers' = [timers EXCEPT ![a] = Append(@, RetryDelay(attempt[a]))]
          /\ acquire' = [acquire EXCEPT ![a] = "delay"]
          /\ UNCHANGED outcome

\* the catch block of the retry loop
Catch(a, error) ==
  /\ lastError' = [lastError EXCEPT ![a] = error]
  /\ results' = [results EXCEPT ![a] = Append(@, Threw(error))]
  /\ IF ~shouldRetryOidcExchange(error) \/ attempt[a] = OIDC_RETRY_ATTEMPTS
     THEN /\ Settle(a, Threw(error))
          /\ UNCHANGED timers
     ELSE /\ timers' = [timers EXCEPT ![a] = Append(@, RetryDelay(attempt[a]))]
          /\ acquire' = [acquire EXCEPT ![a] = "delay"]
          /\ UNCHANGED outcome

\* acquireClank8yBotToken is called and runs up to its first await: the
\* fallback path, or the first attempt up to core.getIDToken
Invoke(a) ==
  /\ acquire[a] = "idle"
  /\ IF ~isOIDCAvailable(processEnv)
     THEN /\ Settle(a, acquireClank8yBotTokenViaLocalFallback(processEnv))
          /\ UNCHANGED <<attempt, trace>>
     ELSE /\ attempt' = [attempt EXCEPT ![a] = 1]
          /\ trace' = [trace EXCEPT ![a] = Append(@, "getIDToken")]
          /\ acquire' = [acquire EXCEPT ![a] = "getIDToken"]
          /\ UNCHANGED outcome
  /\ UNCHANGED <<processEnv, lastError, idToken, issued, exchanges, results, timers,
                 brokerVars>>

\* acquireClank8yBotToken called on its own
AcquireToken(a) ==
  /\ Invoke(a)
  /\ UNCHANGED <<memoVars, octokitVars>>

\* core.getIDToken settles: with a fresh identity token, and the exchange
\* request is sent, or with an error
GetIDToken(a) ==
  /\ acquire[a] = "getIDToken"
  /\ \/ /\ issued' = issued + 1
        /\ idToken' = [idToken EXCEPT ![a] = Str(<<"jwt">> \o NumberToString(issued + 1))]
        /\ exchanges' = [exchanges EXCEPT ![a] =
                           Append(@, [authorization |-> <<"Bearer", " ", "jwt">>
                                                          \o NumberToString(issued + 1),
                                      answer |-> Undefined])]
        /\ trace' = [trace EXCEPT ![a] = Append(@, "fetch")]
        /\ acquire' = [acquire EXCEPT ![a] = "fetch"]
        /\ UNCHANGED <<lastError, results, timers, outcome>>
     \/ /\ \E error \in GetIDTokenThrows : Catch(a, error)
        /\ UNCHANGED <<idToken, issued, exchanges, trace>>
  /\ UNCHANGED <<processEnv, attempt, memoVars, octokitVars,
                 brokerVars>>

\* fetch settles, and the attempt runs to its end: a token is returned, or
\* an error is thrown into the catch block
Fetch(a) ==
  /\ acquire[a] = "fetch"
  /\ \E fetched \in FetchOutcomes :
       LET result == ExchangeResult(fetched)
       IN /\ exchanges' = [exchanges EXCEPT ![a][Len(exchanges[a])].answer = fetched]
          /\ IF result.returned
             THEN /\ results' = [results EXCEPT ![a] = Append(@, result)]
                  /\ Settle(a, result)
                  /\ UNCHANGED <<lastError, timers>>
             ELSE Catch(a, result.error)
  /\ UNCHANGED <<processEnv, attempt, idToken, issued, trace, memoVars, octokitVars,
                 brokerVars>>

\* a loop that gets the identity token once and sends it again on a retry
DelayElapsed_ReuseToken(a) ==
  /\ acquire[a] = "delay"
  /\ attempt' = [attempt EXCEPT ![a] = @ + 1]
  /\ IF attempt[a] + 1 <= OIDC_RETRY_ATTEMPTS
     THEN /\ exchanges' = [exchanges EXCEPT ![a] =
                             Append(@, [authorization |-> <<"Bearer", " ">> \o idToken[a].v,
                                        answer |-> Undefined])]
          /\ trace' = [trace EXCEPT ![a] = Append(@, "fetch")]
          /\ acquire' = [acquire EXCEPT ![a] = "fetch"]
          /\ UNCHANGED outcome
     ELSE /\ Settle(a, Threw(lastError[a]))
          /\ UNCHANGED <<trace, exchanges>>
  /\ UNCHANGED <<processEnv, lastError, idToken, issued, results, timers,
                 memoVars, octokitVars,
                 brokerVars>>

\* the delay is over: the loop's increment and test
DelayElapsed(a) ==
  /\ acquire[a] = "delay"
  /\ attempt' = [attempt EXCEPT ![a] = @ + 1]
  /\ IF attempt[a] + 1 <= OIDC_RETRY_ATTEMPTS
     THEN /\ trace' = [trace EXCEPT ![a] = Append(@, "getIDToken")]
          /\ acquire' = [acquire EXCEPT ![a] = "getIDToken"]
          /\ UNCHANGED outcome
     ELSE /\ Settle(a, Threw(lastError[a]))
          /\ UNCHANGED trace
  /\ UNCHANGED <<processEnv, lastError, idToken, issued, exchanges, results, timers,
                 memoVars, octokitVars,
                 brokerVars>>

\* the action's process, with no broker in it, and one call of
\* acquireClank8yBotToken
ClientInit ==
  /\ env = {}
  /\ Requests({})
  /\ processEnv \in ProcessEnvs
  /\ NotAcquiring({1}, {})
  /\ NoTools({})
  /\ NoReview({})

ClientNext ==
  \/ \E a \in Acquisitions : AcquireToken(a)
  \/ \E a \in Acquisitions : GetIDToken(a)
  \/ \E a \in Acquisitions : Fetch(a)
  \/ \E a \in Acquisitions : DelayElapsed(a)

ClientSpec == ClientInit /\ [][ClientNext]_vars

\* ------------------------------------------------------------ memoized acquisition

\* the calls of getClank8yBotToken made in one process
MaxCallers == 3

\* process.env of the runs: OIDC available; OIDC unavailable with and
\* without a local token
MemoEnvs ==
  { [n \in ClientEnvNames |->
       IF n \in set THEN Str(<<"set">>) ELSE Undefined] :
      set \in { {"ACTIONS_ID_TOKEN_REQUEST_URL", "ACTIONS_ID_TOKEN_REQUEST_TOKEN"},
                {"GH_TOKEN"},
                {} } }

\* the call of acquireClank8yBotToken that is made next
NextAcquisition ==
  CHOOSE a \in Acquisitions :
    acquire[a] = "idle" /\ \A b \in Acquisitions : b < a => acquire[b] # "idle"

\* getClank8yBotToken without the test of the memoized promise
getClank8yBotToken_Unmemoized(c) ==
  /\ caller[c] = "idle"
  /\ LET a == NextAcquisition
     IN /\ clank8yBotTokenPromise' = Promise(a)
        /\ written' = written + 1
        /\ Invoke(a)
        /\ awaited' = [awaited EXCEPT ![c] = Promise(a)]
  /\ caller' = [caller EXCEPT ![c] = "awaiting"]
  /\ UNCHANGED received

\* getClank8yBotToken that acquires again once the memoized promise has rejected
getClank8yBotToken_RetryRejected(c) ==
  /\ caller[c] = "idle"
  /\ IF /\ Truthy(clank8yBotTokenPromise)
        /\ ~(/\ acquire[clank8yBotTokenPromise.of] = "settled"
             /\ ~outcome[clank8yBotTokenPromise.of].returned)
     THEN /\ awaited' = [awaited EXCEPT ![c] = clank8yBotTokenPromise]
          /\ UNCHANGED <<clank8yBotTokenPromise, written, processEnv, acquire, attempt,
                         lastError, idToken, issued, exchanges, results, timers,
                         trace, outcome, brokerVars>>
     ELSE LET a == NextAcquisition
          IN /\ clank8yBotTokenPromise' = Promise(a)
             /\ written' = written + 1
             /\ Invoke(a)
             /\ awaited' = [awaited EXCEPT ![c] = Promise(a)]
  /\ caller' = [caller EXCEPT ![c] = "awaiting"]
  /\ UNCHANGED received

\* getClank8yBotToken is called and runs up to its await (or its return of
\* the memoized promise): the first call assigns the promise of a new
\* acquisition, which runs up to its own first await
getClank8yBotToken(c) ==
  /\ caller[c] = "idle"
  /\ IF Truthy(clank8yBotTokenPromise)
     THEN /\ awaited' = [awaited EXCEPT ![c] = clank8yBotTokenPromise]
          /\ UNCHANGED <<clank8yBotTokenPromise, written, processEnv, acquire, attempt,
                         lastError, idToken, issued, exchanges, results, timers,
                         trace, outcome, brokerVars>>
     ELSE LET a == NextAcquisition
          IN /\ clank8yBotTokenPromise' = Promise(a)
             /\ written' = written + 1
             /\ Invoke(a)
             /\ awaited' = [awaited EXCEPT ![c] = Promise(a)]
  /\ caller' = [caller EXCEPT ![c] = "awaiting"]
  /\ UNCHANGED received

\* a caller that forgets a rejected promise
Resume_Reset(c) ==
  /\ caller[c] = "awaiting"
  /\ acquire[awaited[c].of] = "settled"
  /\ received' = [received EXCEPT ![c] = outcome[awaited[c].of]]
  /\ caller' = [caller EXCEPT ![c] = "done"]
  /\ clank8yBotTokenPromise' =
       IF outcome[awaited[c].of].returned THEN clank8yBotTokenPromise ELSE Null
  /\ UNCHANGED <<written, awaited, processEnv, acquire, attempt, lastError,
                 idToken, issued, exchanges, results, timers, trace, outcome,
                 octokitVars, brokerVars>>

\* the promise a caller awaits has settled: the caller gets its value, or
\* its error
Resume(c) ==
  /\ caller[c] = "awaiting"
  /\ acquire[awaited[c].of] = "settled"
  /\ received' = [received EXCEPT ![c] = outcome[awaited[c].of]]
  /\ caller' = [caller EXCEPT ![c] = "done"]
  /\ UNCHANGED <<clank8yBotTokenPromise, written, awaited, processEnv, acquire, attempt,
                 lastError, idToken, issued, exchanges, results, timers, trace,
                 outcome, octokitVars, brokerVars>>

\* getClank8yBotToken called on its own
GetToken(c) ==
  /\ getClank8yBotToken(c)
  /\ UNCHANGED octokitVars

MemoInit ==
  /\ env = {}
  /\ Requests({})
  /\ processEnv \in MemoEnvs
  /\ NotAcquiring(1..MaxCallers, 1..MaxCallers)
  /\ NoTools({})
  /\ NoReview({})

MemoNext ==
  \/ \E c \in Callers : GetToken(c)
  \/ \E c \in Callers : Resume(c)
  \/ \E a \in Acquisitions : GetIDToken(a)
  \/ \E a \in Acquisitions : Fetch(a)
  \/ \E a \in Acquisitions : DelayElapsed(a)

MemoSpec == MemoInit /\ [][MemoNext]_vars

\* ------------------------------------------------------------ the API client

\* the number of tool calls that ask for the client
MaxTools == 3

acquisitionVars == <<processEnv, acquire, attempt, lastError, idToken, issued, exchanges,
                     results, timers, trace, outcome>>

Tools == DOMAIN tool

\* process.env of the runs, with a local token set in each but the last:
\* OIDC available, OIDC unavailable, and nothing set
ActionEnvs ==
  { [n \in ClientEnvNames |->
       IF n \in set THEN Str(<<"set">>) ELSE Undefined] :
      set \in { {"ACTIONS_ID_TOKEN_REQUEST_URL", "ACTIONS_ID_TOKEN_REQUEST_TOKEN",
                 "GH_TOKEN"},
                {"GH_TOKEN"},
                {} } }

\* new Octokit({auth}): the n-th client constructed in the process
Octokit(auth, n) == [t |-> "object", auth |-> auth, n |-> n]

\* the clients constructed so far
Constructed == {i \in DOMAIN clientLog : clientLog[i].op = "Octokit"}

\* the call of clank8yOctokit that is made next
NextClient ==
  CHOOSE k \in Callers :
    construct[k] = "idle" /\ \A j \in Callers : j < k => construct[j] # "idle"

\* clank8yOctokit is called and runs up to its await of getClank8yBotToken,
\* or returns the client it has
clank8yOctokit(k) ==
  /\ IF Truthy(octokit)
     THEN /\ built' = [built EXCEPT ![k] = Returned(octokit)]
          /\ construct' = [construct EXCEPT ![k] = "done"]
          /\ UNCHANGED <<acquisitionVars, memoVars, brokerVars>>
     ELSE /\ getClank8yBotToken(k)
          /\ construct' = [construct EXCEPT ![k] = "awaiting"]
          /\ UNCHANGED built
  /\ UNCHANGED <<octokit, clientLog>>

\* a tool that calls clank8yOctokit itself
getOctokit_Unmemoized(t) ==
  /\ run = "reviewing"
  /\ tool[t] = "idle"
  /\ LET k == NextClient
     IN /\ oktokitPromise' = Promise(k)
        /\ clank8yOctokit(k)
        /\ toolAwaited' = [toolAwaited EXCEPT ![t] = Promise(k)]
  /\ tool' = [tool EXCEPT ![t] = "awaiting"]
  /\ UNCHANGED <<toolResult, run, failed, mcpVars>>

\* a tool calls getOctokit and awaits what it returns: the memoized promise,
\* or the promise of a call of clank8yOctokit, which it memoizes
getOctokit(t) ==
  /\ run = "reviewing"
  /\ tool[t] = "idle"
  /\ IF Truthy(oktokitPromise)
     THEN /\ toolAwaited' = [toolAwaited EXCEPT ![t] = oktokitPromise]
          /\ UNCHANGED <<oktokitPromise, octokit, construct, built, clientLog,
                         acquisitionVars, memoVars, brokerVars>>
     ELSE LET k == NextClient
          IN /\ oktokitPromise' = Promise(k)
             /\ clank8yOctokit(k)
             /\ toolAwaited' = [toolAwaited EXCEPT ![t] = Promise(k)]
  /\ tool' = [tool EXCEPT ![t] = "awaiting"]
  /\ UNCHANGED <<toolResult, run, failed, mcpVars>>

\* the memoized token promise has settled for a call of getClank8yBotToken
\* made by clank8yOctokit
TokenSettled(k) ==
  /\ construct[k] = "awaiting"
  /\ Resume(k)

\* clank8yOctokit goes on after its await: with the token it registers the
\* secret, constructs the client and keeps it; with an error it throws
Construct(k) ==
  /\ construct[k] = "awaiting"
  /\ caller[k] = "done"
  /\ IF received[k].returned
     THEN LET token == received[k].value
              client == Octokit(token, Cardinality(Constructed) + 1)
          IN /\ clientLog' = clientLog \o <<[op |-> "setSecret", value |-> token],
                                            [op |-> "Octokit", auth |-> token]>>
             /\ octokit' = client
             /\ built' = [built EXCEPT ![k] = Returned(client)]
     ELSE /\ built' = [built EXCEPT ![k] = Threw(received[k].error)]
          /\ UNCHANGED <<octokit, clientLog>>
  /\ construct' = [construct EXCEPT ![k] = "done"]
  /\ UNCHANGED <<oktokitPromise, tool, toolAwaited, toolResult, run, failed, mcpVars,
                 acquisitionVars, memoVars, brokerVars>>

\* error instanceof Error ? error.message : String(error)
MessageOf(error) == IF IsError(error) THEN error.message ELSE error.v

\* tool.error(`Failed to ...: ${message}`)
ToolError(message) == [isError |-> TRUE, content |-> <<"Failed to ", ": ">> \o message]

\* the tool goes on with the client
WithClient(client) == [isError |-> FALSE, client |-> client]

\* the promise getOctokit returned has settled: the tool goes on with the
\* client, or its catch block returns an error result
UseClient(t) ==
  /\ tool[t] = "awaiting"
  /\ construct[toolAwaited[t].of] = "done"
  /\ LET result == built[toolAwaited[t].of]
     IN toolResult' = [toolResult EXCEPT ![t] =
                         IF result.returned THEN WithClient(result.value)
                         ELSE ToolError(MessageOf(result.error))]
  /\ tool' = [tool EXCEPT ![t] = "done"]
  /\ UNCHANGED <<oktokitPromise, octokit, construct, built, clientLog, toolAwaited,
                 run, failed, mcpVars, acquisitionVars, memoVars, brokerVars>>

\* what reviewPullRequest may throw by itself
ReviewThrows == {Error("Error", <<"Copilot authentication token is missing.">>)}

\* reviewPullRequest settles: startClank8y returns, or its catch marks the
\* run failed
ReviewEnds ==
  /\ run = "reviewing"
  /\ \A t \in Tools : tool[t] # "awaiting"
  /\ run' = "exited"
  /\ \/ failed' = failed
     \/ \E error \in ReviewThrows :
          failed' = <<"clank8y failed to review the pull request: ">> \o MessageOf(error)
  /\ UNCHANGED <<oktokitPromise, octokit, construct, built, clientLog, tool, toolAwaited,
                 toolResult, mcpVars, acquisitionVars, memoVars, brokerVars>>

OctokitInit ==
  /\ env = {}
  /\ Requests({})
  /\ processEnv \in ActionEnvs
  /\ NotAcquiring(1..MaxTools, 1..MaxTools)
  /\ NoTools(1..MaxTools)
  /\ NoReview({})

OctokitNext ==
  \/ \E t \in Tools : getOctokit(t)
  \/ \E k \in Callers : TokenSettled(k)
  \/ \E k \in Callers : Construct(k)
  \/ \E t \in Tools : UseClient(t)
  \/ ReviewEnds
  \/ \E a \in Acquisitions : GetIDToken(a)
  \/ \E a \in Acquisitions : Fetch(a)
  \/ \E a \in Acquisitions : DelayElapsed(a)

OctokitSpec == OctokitInit /\ [][OctokitNext]_vars

\* ------------------------------------------------------------ the staged review

\* the number of findings the agent stages, and of its submissions
MaxComments == 3
MaxSubmits == 2

Paths == {"a.ts", "b.ts"}

Submits == DOMAIN submit

\* the n-th finding the agent stages: a StagedComment on a line of a file
StagedComment(n, path) ==
  [path |-> path, line |-> n, side |-> "RIGHT", body |-> <<"finding ", n>>]

\* the comment of the review request made from a staged comment
ApiComment(comment) ==
  [path |-> comment.path, line |-> comment.line, side |-> comment.side,
   body |-> comment.body, start_line |-> comment.line, start_side |-> comment.side]

\* stagedComments.map(...)
RECURSIVE ApiComments(_)
ApiComments(comments) ==
  IF comments = <<>> THEN <<>>
  ELSE <<ApiComment(Head(comments))>> \o ApiComments(Tail(comments))

\* what the awaited calls of a submission may throw
SubmitThrows ==
  { Error("Error", <<"Token exchange failed">>),
    Error("HttpError", <<"Validation Failed">>) }

\* tool.text(encode({success: true, ..., comment_count}))
Submitted(count) == [isError |-> FALSE, success |-> TRUE, comment_count |-> count]

\* stage-review-comment: the handler runs to its end without an await
StageReviewComment ==
  /\ Cardinality(staged) < MaxComments
  /\ \E path \in Paths, mark_file_reviewed \in BOOLEAN :
       LET comment == StagedComment(Cardinality(staged) + 1, path)
       IN /\ stagedComments' = Append(stagedComments, comment)
          /\ staged' = staged \cup {comment}
          /\ reviewedFiles' = IF mark_file_reviewed THEN reviewedFiles \cup {path}
                              ELSE reviewedFiles
  /\ UNCHANGED <<submit, apiComments, submitResult, reviews, agentVars, oktokitPromise,
                 octokit, construct, built, clientLog, tool, toolAwaited, toolResult, run,
                 failed, acquisitionVars, memoVars, brokerVars>>

\* mark-file-reviewed, for one path that is not marked yet
MarkFileReviewed ==
  /\ \E path \in Paths \ reviewedFiles : reviewedFiles' = reviewedFiles \cup {path}
  /\ UNCHANGED <<stagedComments, staged, submit, apiComments, submitResult, reviews,
                 agentVars, oktokitPromise, octokit, construct, built, clientLog, tool,
                 toolAwaited, toolResult, run, failed, acquisitionVars, memoVars,
                 brokerVars>>

\* what a step of a submission leaves alone besides the staged state
SubmitFrame ==
  UNCHANGED <<staged, agentVars, oktokitPromise, octokit, construct, built, clientLog,
              tool, toolAwaited, toolResult, run, failed, acquisitionVars, memoVars,
              brokerVars>>

\* the catch block of submit-staged-review
SubmitFails(s, error) ==
  /\ submitResult' = [submitResult EXCEPT ![s] =
                        ToolError(<<"submit staged review">> \o MessageOf(error))]
  /\ submit' = [submit EXCEPT ![s] = "done"]
  /\ UNCHANGED <<stagedComments, reviewedFiles, apiComments, reviews>>

\* submit-staged-review is called and awaits getOctokit()
SubmitStagedReview(s) ==
  /\ submit[s] = "idle"
  /\ submit' = [submit EXCEPT ![s] = "getOctokit"]
  /\ UNCHANGED <<stagedComments, reviewedFiles, apiComments, submitResult, reviews>>
  /\ SubmitFrame

\* getOctokit() settles; the submission awaits getPullRequestReviewContext()
SubmitGotOctokit(s) ==
  /\ submit[s] = "getOctokit"
  /\ \/ /\ submit' = [submit EXCEPT ![s] = "getContext"]
        /\ UNCHANGED <<stagedComments, reviewedFiles, apiComments, submitResult, reviews>>
     \/ \E error \in SubmitThrows : SubmitFails(s, error)
  /\ SubmitFrame

\* the review context settles; the submission awaits pulls.get
SubmitGotContext(s) ==
  /\ submit[s] = "getContext"
  /\ \/ /\ submit' = [submit EXCEPT ![s] = "pulls.get"]
        /\ UNCHANGED <<stagedComments, reviewedFiles, apiComments, submitResult, reviews>>
     \/ \E error \in SubmitThrows : SubmitFails(s, error)
  /\ SubmitFrame

\* a submission that empties the staged state when it builds the request
SubmitGotPullRequest_ClearEarly(s) ==
  /\ submit[s] = "pulls.get"
  /\ \/ /\ apiComments' = [apiComments EXCEPT ![s] = ApiComments(stagedComments)]
        /\ stagedComments' = <<>>
        /\ reviewedFiles' = {}
        /\ submit' = [submit EXCEPT ![s] = "createReview"]
        /\ UNCHANGED <<submitResult, reviews>>
     \/ \E error \in SubmitThrows : SubmitFails(s, error)
  /\ SubmitFrame

\* pulls.get settles; the submission builds the request from the comments
\* staged now, and awaits pulls.createReview
SubmitGotPullRequest(s) ==
  /\ submit[s] = "pulls.get"
  /\ \/ /\ apiComments' = [apiComments EXCEPT ![s] = ApiComments(stagedComments)]
        /\ submit' = [submit EXCEPT ![s] = "createReview"]
        /\ UNCHANGED <<stagedComments, reviewedFiles, submitResult, reviews>>
     \/ \E error \in SubmitThrows : SubmitFails(s, error)
  /\ SubmitFrame

\* pulls.createReview settles: the review was created, the staged state is
\* emptied and the count is reported; or the call failed
SubmitCreatedReview(s) ==
  /\ submit[s] = "createReview"
  /\ \/ /\ reviews' = Append(reviews, [by |-> s, comments |-> apiComments[s]])
        /\ submitResult' = [submitResult EXCEPT ![s] = Submitted(Len(stagedComments))]
        /\ stagedComments' = <<>>
        /\ reviewedFiles' = {}
        /\ submit' = [submit EXCEPT ![s] = "done"]
        /\ UNCHANGED apiComments
     \/ \E error \in SubmitThrows : SubmitFails(s, error)
  /\ SubmitFrame

\* the tools' process, with the staged state empty
ReviewInit ==
  /\ env = {}
  /\ Requests({})
  /\ processEnv = [n \in ClientEnvNames |-> Undefined]
  /\ NotAcquiring({}, {})
  /\ NoTools({})
  /\ NoReview(1..MaxSubmits)

ReviewNext ==
  \/ StageReviewComment
  \/ MarkFileReviewed
  \/ \E s \in Submits : SubmitStagedReview(s)
  \/ \E s \in Submits : SubmitGotOctokit(s)
  \/ \E s \in Submits : SubmitGotContext(s)
  \/ \E s \in Submits : SubmitGotPullRequest(s)
  \/ \E s \in Submits : SubmitCreatedReview(s)

ReviewSpec == ReviewInit /\ [][ReviewNext]_vars

\* ------------------------------------------------------------ the review function

\* the error a step of the review function fails with
AgentThrows(step) == Error("Error", <<step, " failed">>)

\* the status of the local server while it serves
Running == [state |-> "running", url |-> <<"http://localhost:", "port", "/mcp">>]

\* what a step of the review function leaves alone
AgentFrame ==
  UNCHANGED <<reviewVars, oktokitPromise, octokit, construct, built, clientLog, tool,
              toolAwaited, toolResult, run, failed, acquisitionVars, memoVars, brokerVars>>

\* the review function is called and awaits github.start()
Review ==
  /\ review = "idle"
  /\ review' = "github.start"
  /\ UNCHANGED <<mcpStatus, thrown, stops>>
  /\ AgentFrame

\* github.start(): the server listens and is running, or serve() or ready()
\* fails or gives no url and start throws, before the try block is entered
GithubStart ==
  /\ review = "github.start"
  /\ \/ /\ mcpStatus' = Running
        /\ stops' = Append(stops, "github.start")
        /\ review' = "createSession"
        /\ UNCHANGED thrown
     \/ /\ thrown' = AgentThrows("github.start")
        /\ review' = "threw"
        /\ UNCHANGED <<mcpStatus, stops>>
  /\ AgentFrame

\* client.createSession settles; if it throws the outer finally is next
CreateSession ==
  /\ review = "createSession"
  /\ \/ review' = "sendAndWait" /\ UNCHANGED thrown
     \/ review' = "client.stop" /\ thrown' = AgentThrows("createSession")
  /\ UNCHANGED <<mcpStatus, stops>>
  /\ AgentFrame

\* session.sendAndWait settles; the inner finally is next either way
SendAndWait ==
  /\ review = "sendAndWait"
  /\ \/ UNCHANGED thrown
     \/ thrown' = AgentThrows("sendAndWait")
  /\ review' = "session.destroy"
  /\ UNCHANGED <<mcpStatus, stops>>
  /\ AgentFrame

\* session.destroy settles; an error of its own replaces the pending one
SessionDestroy ==
  /\ review = "session.destroy"
  /\ \/ UNCHANGED thrown
     \/ thrown' = AgentThrows("session.destroy")
  /\ review' = "client.stop"
  /\ UNCHANGED <<mcpStatus, stops>>
  /\ AgentFrame

\* await client.stop() in the outer finally: when it throws, the finally
\* block is left and the review function throws
ClientStop ==
  /\ review = "client.stop"
  /\ stops' = Append(stops, "client.stop")
  /\ \/ review' = "github.stop" /\ UNCHANGED thrown
     \/ review' = "threw" /\ thrown' = AgentThrows("client.stop")
  /\ UNCHANGED mcpStatus
  /\ AgentFrame

\* await github.stop(): server.close() and then the status is 'stopped';
\* when close throws the status is not written
GithubStop ==
  /\ review = "github.stop"
  /\ stops' = Append(stops, "github.stop")
  /\ \/ /\ mcpStatus' = [state |-> "stopped"]
        /\ review' = IF thrown = Null THEN "returned" ELSE "threw"
        /\ UNCHANGED thrown
     \/ /\ thrown' = AgentThrows("github.stop")
        /\ review' = "threw"
        /\ UNCHANGED mcpStatus
  /\ AgentFrame

\* a tool call of the agent, served while it works on the prompt
ToolStep ==
  /\ review = "sendAndWait"
  /\ mcpStatus.state = "running"
  /\ ReviewNext

AgentInit == ReviewInit

AgentNext ==
  \/ Review
  \/ GithubStart
  \/ CreateSession
  \/ SendAndWait
  \/ SessionDestroy
  \/ ClientStop
  \/ GithubStop
  \/ ToolStep

AgentSpec == AgentInit /\ [][AgentNext]_vars

\* ------------------------------------------------------------ vocabulary of the properties

Done(h) == pc[h] = "done"

Status(h) == response[h].status

OpInstallation == "GET /repos/{owner}/{repo}/installation"
OpRepository == "GET /repos/{owner}/{repo}"
OpMint == "POST /app/installations/{installation_id}/access_tokens"

Issued(h, op) == \E i \in DOMAIN calls[h] : calls[h][i].op = op

\* the bearer token has been decoded
Decoded(h) == oidcToken[h] # Undefined

\* the claims of the decoded bearer token
Claims(h) == oidcToken[h].payload

SignatureVerified(h) ==
  /\ Decoded(h)
  /\ oidcToken[h].signature = "valid"
  /\ oidcToken[h].iss = "https://token.actions.githubusercontent.com"
  /\ oidcToken[h].aud = "clank8y"

\* "{owner}/{repo}" of the request body
RequestedRepository(h) == owner[h].v \o <<"/">> \o repo[h].v

RepositoryMatches(h) == Claims(h).repository = Str(RequestedRepository(h))
OwnerMatches(h) == Claims(h).repository_owner = Str(owner[h].v)
EventMatches(h) == Claims(h).event_name = Str(<<"workflow_dispatch">>)
RunnerMatches(h) == Claims(h).runner_environment = Str(<<"github-hosted">>)

BasicClaimsMatch(h) ==
  RepositoryMatches(h) /\ OwnerMatches(h) /\ EventMatches(h) /\ RunnerMatches(h)

\* "refs/heads/{branch}"
BranchRef(branch) == <<"refs", "/", "heads", "/">> \o branch

\* "{owner}/{repo}/.github/workflows/clank8y.yml@refs/heads/{branch}"
PinnedWorkflow(h, branch) ==
  RequestedRepository(h) \o <<"/", ".github", "/", "workflows", "/", "clank8y.yml", "@">>
    \o BranchRef(branch)

RefMatches(h, branch) == Claims(h).ref = Str(BranchRef(branch))
WorkflowMatches(h, branch) == Claims(h).job_workflow_ref = Str(PinnedWorkflow(h, branch))

\* JavaScript's String(x)
JsString(x) ==
  CASE IsString(x) -> x.v
    [] IsNumber(x) -> NumberToString(x.v)
    [] x.t = "boolean" -> IF x.v THEN <<"true">> ELSE <<"false">>
    [] OTHER -> <<x.t>>

\* String(run_id claim) == requested run_id, literally
RunIdEquals(h) == JsString(Claims(h).run_id) = runId[h].v

\* the same up to surrounding whitespace of a string or number run_id claim
RunIdMatches(h) ==
  /\ IsString(Claims(h).run_id) \/ IsNumber(Claims(h).run_id)
  /\ Trim(JsString(Claims(h).run_id)) = runId[h].v

\* the default branch was fetched for this request
Fetched(h) == IsString(defaultBranch[h])

Unauthorized(h) == Done(h) /\ Status(h) = 401

\* the response carries a token
ReturnsToken(h) == Done(h) /\ "token" \in DOMAIN response[h].body

\* ------------------------------------------------------------ properties

\* the handler's positions in order: Received (json, jwtVerify), BasicVerified
\* (getInstallation), InstallationResolved (getRepository), RefVerified
\* (mintToken), Minted and Responded (done with 200)
Stages == <<"idle", "json", "jwtVerify", "getInstallation", "getRepository",
            "mintToken", "done">>

\* a step moves a handler to the next position, or to a failure response
InOrder(h) ==
  pc'[h] # pc[h] =>
    \/ \E n \in 1..(Len(Stages) - 1) : pc[h] = Stages[n] /\ pc'[h] = Stages[n + 1]
    \/ pc'[h] = "done" /\ response'[h].status \in {400, 401, 500}

MintGuarded(h) ==
  /\ Issued(h, OpMint) =>
       /\ SignatureVerified(h)
       /\ BasicClaimsMatch(h)
       /\ IsNumber(installationId[h])
       /\ Fetched(h)
       /\ RefMatches(h, defaultBranch[h].v)
       /\ WorkflowMatches(h, defaultBranch[h].v)
       /\ RunIdMatches(h)
  /\ (Status(h) = 200 \/ ReturnsToken(h)) =>
       /\ Issued(h, OpMint)
       /\ tokenResponse[h] # Undefined
       /\ tokenResponse[h].ok
  /\ \E n \in 0..3 :
       [i \in DOMAIN calls[h] |-> calls[h][i].op]
         = SubSeq(<<OpInstallation, OpRepository, OpMint>>, 1, n)
  /\ Len(calls[h]) >= 2 => IsNumber(installationId[h])

\* C1: the mint call is issued only after, for the same request, the token's
\* signature, issuer and audience verified, the four basic claims matched, the
\* installation was resolved, the default branch was fetched and the three ref
\* claims matched against that branch; a 200 with a token only follows a
\* successful mint call; the platform calls come in the order installation
\* lookup, repository fetch, mint, and every step takes the handler to the
\* next position of the sequence or to a failure response, none skipped.
C1_MintOnlyAfterAllChecks ==
  /\ [](\A h \in Handlers : MintGuarded(h))
  /\ [][\A h \in Handlers : InOrder(h)]_vars

C1_Witness ==
  \E h \in Handlers : Status(h) = 200 /\ Len(calls[h]) = 3

\* C2: no platform API call is issued before the signature verification and
\* the basic-claims validation of that request have succeeded.
C2_NoCallBeforePhase1 ==
  \A h \in Handlers :
    calls[h] # <<>> => SignatureVerified(h) /\ BasicClaimsMatch(h)

C2_Witness ==
  \E h \in Handlers : pc[h] = "getInstallation" /\ Len(calls[h]) = 1

\* C3: a request whose ref claim differs from refs/heads/{default_branch}, the
\* default branch being the one fetched for it, ends 401 with no mint call and
\* no token, although phase 1 passed.
C3_RefMismatchUnauthorized ==
  \A h \in Handlers :
    (Fetched(h) /\ ~RefMatches(h, defaultBranch[h].v)) =>
      /\ Unauthorized(h)
      /\ ~Issued(h, OpMint)
      /\ ~ReturnsToken(h)

\* the scenario of the specification: acme/widgets, run 1, ref feature-x
C3_Witness ==
  \E h \in Handlers :
    /\ Fetched(h) /\ defaultBranch[h] = Str(main)
    /\ Claims(h) = [GoodPayload EXCEPT !.ref = Str(BranchRef(featureX))]
    /\ runId[h] = Str(<<"1">>)
    /\ Unauthorized(h)

\* C4: job_workflow_ref is accepted only when it is exactly
\* "{owner}/{repo}/.github/workflows/clank8y.yml@refs/heads/{default_branch}";
\* once the default branch is fetched, any other value (another file, or the
\* right file pinned at another ref) ends 401 with no mint call.
C4_WorkflowRefExact ==
  \A h \in Handlers :
    /\ Issued(h, OpMint) => WorkflowMatches(h, defaultBranch[h].v)
    /\ (Fetched(h) /\ ~WorkflowMatches(h, defaultBranch[h].v)) =>
         Unauthorized(h) /\ ~Issued(h, OpMint)

\* the right repository and file, pinned at dev while the default branch is
\* main; every other claim matches
C4_Witness ==
  \E h \in Handlers :
    /\ Fetched(h) /\ defaultBranch[h] = Str(main)
    /\ Claims(h) = [GoodPayload EXCEPT !.job_workflow_ref =
                      Str(PinnedWorkflow(h, dev))]
    /\ runId[h] = Str(<<"1">>)
    /\ Unauthorized(h)

\* C5 as stated: once phase 2 is reached, String(run_id claim) # requested
\* run_id ends 401 with no mint; a mint call implies String(run_id claim) =
\* requested run_id.
C5_RunIdLiteral ==
  \A h \in Handlers :
    /\ (Fetched(h) /\ ~RunIdEquals(h)) => Unauthorized(h) /\ ~Issued(h, OpMint)
    /\ Issued(h, OpMint) => RunIdEquals(h)

\* C5 amended: the run_id claim is compared after the normalisation of
\* runIdSchema: String(run_id claim), trimmed, differs from the requested
\* run_id => 401 and no mint; a mint call implies the trimmed String(run_id
\* claim) equals the requested run_id.
C5_RunIdTrimmed ==
  \A h \in Handlers :
    /\ (Fetched(h) /\ ~RunIdMatches(h)) => Unauthorized(h) /\ ~Issued(h, OpMint)
    /\ Issued(h, OpMint) => RunIdMatches(h)

\* every other claim matches, the run_id claim names run 2, run 1 is requested
C5_Witness ==
  \E h \in Handlers :
    /\ Fetched(h) /\ defaultBranch[h] = Str(main)
    /\ Claims(h) = [GoodPayload EXCEPT !.run_id = Str(<<"2">>)]
    /\ runId[h] = Str(<<"1">>)
    /\ Unauthorized(h)

\* C6: a token whose repository claim differs from "{owner}/{repo}" of the
\* body ends 401, and no installation lookup, repository fetch or mint call
\* is made.
C6_RepositoryMismatch ==
  \A h \in Handlers :
    (Decoded(h) /\ ~RepositoryMatches(h)) =>
      /\ Unauthorized(h)
      /\ calls[h] = <<>>

\* a verified token for evil/widgets presented for acme/widgets
C6_Witness ==
  \E h \in Handlers :
    /\ SignatureVerified(h)
    /\ Claims(h).repository = Str(expectedRepository(evil, widgets))
    /\ owner[h] = Str(acme) /\ repo[h] = Str(widgets)
    /\ Unauthorized(h)

\* C7: a token whose event_name claim is not "workflow_dispatch" ends 401,
\* whatever the other claims are.
C7_EventNameGate ==
  \A h \in Handlers :
    (Decoded(h) /\ ~EventMatches(h)) => Unauthorized(h)

\* every other claim matches
C7_Witness ==
  \E h \in Handlers :
    /\ SignatureVerified(h)
    /\ Claims(h) = [GoodPayload EXCEPT !.event_name = Str(<<"pull_request">>)]
    /\ owner[h] = Str(acme) /\ repo[h] = Str(widgets) /\ runId[h] = Str(<<"1">>)
    /\ Unauthorized(h)

\* C8: a token whose repository_owner differs from the requested owner, or
\* whose runner_environment is not "github-hosted", ends 401 with no platform
\* call, and the response is the one generic message whichever field failed.
C8_OwnerRunnerGate ==
  \A h \in Handlers :
    (Decoded(h) /\ (~OwnerMatches(h) \/ ~RunnerMatches(h))) =>
      /\ Done(h)
      /\ response[h] = [status |-> 401, body |-> [message |-> "Unauthorized"]]
      /\ calls[h] = <<>>

\* a self-hosted runner, every other claim matching
C8_Witness ==
  \E h \in Handlers :
    /\ SignatureVerified(h)
    /\ Claims(h) = [GoodPayload EXCEPT !.runner_environment = Str(<<"self-hosted">>)]
    /\ owner[h] = Str(acme) /\ repo[h] = Str(widgets)
    /\ Unauthorized(h)

\* the claims match the requested owner, repo and run_id, and ref and
\* job_workflow_ref match the default branch resolved for the request
AllClaimsMatch(h) ==
  /\ SignatureVerified(h)
  /\ BasicClaimsMatch(h)
  /\ Fetched(h)
  /\ RefMatches(h, defaultBranch[h].v)
  /\ WorkflowMatches(h, defaultBranch[h].v)
  /\ RunIdMatches(h)

\* C9: when the claims match the request and the resolved default branch, the
\* exchange goes on to the mint call, and the response to the mint's answer
\* is 200 with exactly the token and expires_at of that answer.
C9_MatchingClaimsSucceed ==
  \A h \in Handlers :
    AllClaimsMatch(h) =>
      /\ Issued(h, OpMint)
      /\ Done(h) =>
           /\ tokenResponse[h] # Undefined
           /\ tokenResponse[h].ok =>
                response[h] = [status |-> 200,
                               body |-> [token |-> tokenResponse[h].data.token,
                                         expires_at |-> tokenResponse[h].data.expires_at]]
           /\ Status(h) # 200 => ~tokenResponse[h].ok

\* the scenario of the specification
C9_Witness ==
  \E h \in Handlers :
    /\ AllClaimsMatch(h)
    /\ Claims(h) = GoodPayload
    /\ defaultBranch[h] = Str(main)
    /\ Status(h) = 200
    /\ response[h].body.token = "ghs_a"

\* C10: every mint call is scoped to exactly one repository, the repo of the
\* request body, and to exactly {contents: read, pull_requests: write,
\* issues: write}.
C10_MintScope ==
  \A h \in Handlers :
    \A i \in DOMAIN calls[h] :
      calls[h][i].op = OpMint =>
        /\ calls[h][i].repositories = <<Trim(rawPayload[h].repo.v)>>
        /\ DOMAIN calls[h][i].permissions = {"contents", "pull_requests", "issues"}
        /\ calls[h][i].permissions.contents = "read"
        /\ calls[h][i].permissions.pull_requests = "write"
        /\ calls[h][i].permissions.issues = "write"

\* a mint call for a body whose repo was padded
C10_Witness ==
  \E h \in Handlers :
    /\ Issued(h, OpMint)
    /\ rawPayload[h].repo = Str(<<"widgets", " ">>)
    /\ calls[h][3].repositories = <<widgets>>

\* ------------------------------------------------------------ two requests

\* Two requests served by one process.  Their inputs are one of each kind:
\* a header without and with a token, a body that is not JSON and a valid
\* one, and a bearer token that is good, badly signed, issued for another
\* event, for another branch, or for another run.
PairHeaders == {Null, Str(<<"Bearer", " ", "jwt">>)}

PairBodies == {Null, Body(Str(acme), Str(widgets), Str(NumberToString(1)))}

PairJwts ==
  { Jwt("valid", GITHUB_OIDC_ISSUER, CLANK8Y_OIDC_AUDIENCE, p) :
      p \in { GoodPayload,
              [GoodPayload EXCEPT !.event_name = Str(<<"pull_request">>)],
              [GoodPayload EXCEPT !.ref = Str(trustedRef(featureX))],
              [GoodPayload EXCEPT !.run_id = Str(NumberToString(2))] } }
  \cup { Jwt("invalid", GITHUB_OIDC_ISSUER, CLANK8Y_OIDC_AUDIENCE, GoodPayload) }

PairInputs ==
  \A h \in Handlers :
    /\ authorization[h] \in PairHeaders \cup {Undefined}
    /\ requestBody[h] \in PairBodies \cup {Undefined}
    /\ rawPayload[h] \in PairBodies \cup {Undefined}
    /\ oidcToken[h] \in PairJwts \cup {Undefined}

PairInit == Start({1, 2})

PairNext ==
  \/ (\E h \in Handlers : HandleRequest(h)) /\ PairInputs'
  \/ (\E h \in Handlers : ParseBody(h)) /\ PairInputs'
  \/ (\E h \in Handlers : VerifyBasicClaims(h)) /\ PairInputs'
  \/ \E h \in Handlers : ResolveInstallation(h)
  \/ \E h \in Handlers : ResolveDefaultBranch(h)
  \/ \E h \in Handlers : MintToken(h)

PairSpec == PairInit /\ [][PairNext]_vars

\* ------------------------------------------------------------ rejections

\* the broker process has its app credentials (a process without them
\* answers every request with 500)
Configured == EnvNames \subseteq env

\* "Bearer <token>": the scheme, whitespace, and a token with a character
\* that is not whitespace
WellFormedBearer(header) ==
  /\ IsString(header)
  /\ Len(header.v) >= 3
  /\ header.v[1] \in BearerWords
  /\ header.v[2] \in Whitespace
  /\ \E i \in 3..Len(header.v) : header.v[i] \notin Whitespace

\* the handler has read the request's header
Received(h) == pc[h] # "idle"

\* C11: a request whose Authorization header is absent, not of the form
\* "Bearer <token>", or carries an empty token is answered 401 at once: the
\* body is never read, no signature is verified and no platform API call is
\* issued.
C11_MalformedHeaderUnauthorized ==
  \A h \in Handlers :
    (Configured /\ Received(h) /\ ~WellFormedBearer(authorization[h])) =>
      /\ Done(h)
      /\ response[h] = HTTPError(401, "Unauthorized")
      /\ rawPayload[h] = Undefined
      /\ ~Decoded(h)
      /\ calls[h] = <<>>

\* a header whose token is whitespace only was answered 401
C11_Witness ==
  \E h \in Handlers :
    /\ Configured
    /\ authorization[h] = Str(<<"Bearer", " ", " ">>)
    /\ Status(h) = 401
    /\ calls[h] = <<>>

\* a string with a character that is not whitespace
NonBlank(x) == IsString(x) /\ \E i \in DOMAIN x.v : x.v[i] \notin Whitespace

\* a JSON object with a non-empty (after trimming) owner, repo and run_id
WellFormedBody(body) ==
  /\ body.t = "object"
  /\ NonBlank(body.owner)
  /\ NonBlank(body.repo)
  /\ NonBlank(body.run_id) \/ IsNumber(body.run_id)

\* the handler has read the request's body
BodyRead(h) == pc[h] \notin {"idle", "json"}

\* C12: a request with a bearer token whose body is not JSON, or lacks a
\* non-empty (after trimming) owner, repo or run_id, is answered 400, and
\* neither a signature verification nor a platform API call is made for it.
C12_MalformedBodyBadRequest ==
  \A h \in Handlers :
    (/\ Configured
     /\ WellFormedBearer(authorization[h])
     /\ BodyRead(h)
     /\ ~WellFormedBody(rawPayload[h])) =>
      /\ Done(h)
      /\ Status(h) = 400
      /\ ~Decoded(h)
      /\ calls[h] = <<>>

\* a body whose owner is a blank was answered 400
C12_Witness ==
  \E h \in Handlers :
    /\ WellFormedBearer(authorization[h])
    /\ BodyRead(h)
    /\ rawPayload[h].t = "object"
    /\ rawPayload[h].owner = Str(<<" ">>)
    /\ Status(h) = 400
    /\ calls[h] = <<>>

\* the i-th platform call of h failed: it threw, or it was the metadata
\* fetch and its answer names no default branch
CallFailed(h, i) ==
  \/ ~replies[h][i].ok
  \/ /\ calls[h][i].op = OpRepository
     /\ replies[h][i].data.default_branch \notin {Str(main), Str(dev)}

\* C13: once phase 1 has passed, a failure of the installation lookup, of
\* the metadata fetch (a missing default branch included) or of the mint is
\* answered 500 and ends the request: no call follows the failed one, and
\* no token is returned.
C13_UpstreamFailureStops ==
  \A h \in Handlers :
    /\ Len(replies[h]) <= Len(calls[h])
    /\ \A i \in DOMAIN replies[h] :
         CallFailed(h, i) =>
           /\ Done(h)
           /\ Status(h) = 500
           /\ Len(calls[h]) = i
           /\ Len(replies[h]) = i
           /\ ~ReturnsToken(h)

\* a metadata answer with an empty default branch ended the request
C13_Witness ==
  \E h \in Handlers :
    /\ Len(replies[h]) = 2
    /\ replies[h][2].ok
    /\ replies[h][2].data.default_branch = Str(<<>>)
    /\ Status(h) = 500
    /\ Len(calls[h]) = 2

\* C14: any two 401 responses are the same response, with the same status
\* and the same body, whichever check failed (the header, the signature, a
\* basic claim or a ref claim).
C14_UnauthorizedIndistinguishable ==
  \A h1, h2 \in Handlers :
    (Status(h1) = 401 /\ Status(h2) = 401) => response[h1] = response[h2]

\* one request was rejected for its header, the other for its ref claim
C14_Witness ==
  \E h1, h2 \in Handlers :
    /\ Status(h1) = 401
    /\ authorization[h1] = Null
    /\ Status(h2) = 401
    /\ Fetched(h2)
    /\ oidcPayload[h2].ref = Str(trustedRef(featureX))

\* the number of platform calls that were answered before the response
Step(h) == Len(replies[h])

\* C15 as stated: any two 500 responses are the same response, whichever of
\* installation resolution, metadata fetch, missing default branch, mint or
\* missing configuration caused them.
C15_ServerErrorIndistinguishable ==
  \A h1, h2 \in Handlers :
    (Status(h1) = 500 /\ Status(h2) = 500) => response[h1] = response[h2]

\* C15, amended: a 500 response carries a fixed message chosen by the step
\* that failed and by nothing else: one for missing configuration, one for
\* installation resolution, one shared by a failed metadata fetch and a
\* missing default branch, one for the mint.
C15_ServerErrorPerStep ==
  /\ \A h \in Handlers :
       Status(h) = 500 =>
         response[h].body =
           [message |->
              CASE Step(h) = 0 -> "Internal server error"
                [] Step(h) = 1 -> "Failed to find app installation for repository"
                [] Step(h) = 2 -> "Failed to resolve repository default branch"
                [] Step(h) = 3 -> "Failed to mint installation token"]
  /\ \A h \in Handlers : (Status(h) = 500 /\ Step(h) = 0) <=> (Done(h) /\ ~Configured)
  /\ \A h1, h2 \in Handlers :
       (Status(h1) = 500 /\ Status(h2) = 500 /\ Step(h1) = Step(h2)) =>
         response[h1] = response[h2]

\* two 500 responses of one process with different bodies: a failed
\* installation lookup and a failed mint
C15_Witness ==
  \E h1, h2 \in Handlers :
    /\ Status(h1) = 500 /\ Step(h1) = 1
    /\ Status(h2) = 500 /\ Step(h2) = 3
    /\ response[h1] # response[h2]

\* ------------------------------------------------------------ acquisition

\* the call of acquireClank8yBotToken has returned or thrown
Settled(a) == acquire[a] = "settled"

\* the i-th exchange request of a was answered with the given HTTP status
AnsweredWith(a, i, status) ==
  /\ exchanges[a][i].answer # Undefined
  /\ exchanges[a][i].answer.returned
  /\ exchanges[a][i].answer.value.status = status

\* C16: a 401 answer to the exchange call is never retried: the acquisition
\* ends with that attempt, its error is thrown, and no delay is awaited for
\* it; in particular a 401 on the first attempt makes it the only attempt.
C16_UnauthorizedNotRetried ==
  \A a \in Acquisitions :
    \A i \in DOMAIN exchanges[a] :
      AnsweredWith(a, i, 401) =>
        /\ Settled(a)
        /\ ~outcome[a].returned
        /\ Len(exchanges[a]) = i
        /\ Len(timers[a]) = i - 1

\* C17: an acquisition makes at most 3 exchange attempts, and after the
\* third has failed there is no further attempt and no further delay: the
\* acquisition is over.
C17_AtMostThreeAttempts ==
  \A a \in Acquisitions :
    /\ attempt[a] <= 3
    /\ Len(exchanges[a]) <= 3
    /\ Len(results[a]) <= 3
    /\ Len(results[a]) = 3 => (Settled(a) /\ Len(timers[a]) = 2)

\* three exchange requests were sent and all three failed
C17_Witness ==
  \E a \in Acquisitions :
    /\ Settled(a)
    /\ Len(exchanges[a]) = 3
    /\ Len(results[a]) = 3
    /\ \A i \in 1..3 : ~results[a][i].returned

\* the answer is a failure the retry policy calls transient: a network
\* failure, a reset, an abort, a timeout, or a response that is neither 2xx
\* nor a 401
TransientAnswer(answer) ==
  IF answer.returned
  THEN answer.value.status \notin 200..299 /\ answer.value.status # 401
  ELSE answer.error \in
         { Error("TypeError", <<"fetch failed">>),
           Error("AbortError", <<"This operation was aborted">>),
           Error("Error", <<"read ", "ECONNRESET">>),
           Error("Error", <<"connect ", "ETIMEDOUT">>) }

\* the token of a 200 answer that carries one
TokenOf(answer) == answer.value.body.value.token

RECURSIVE Sum(_)
Sum(s) == IF s = <<>> THEN 0 ELSE Head(s) + Sum(Tail(s))

\* C19: the delay between attempts 1 and 2 is 250 ms and the delay between
\* attempts 2 and 3 is 750 ms; no delay follows a success, a failure that is
\* not retried, or the last attempt; the backoff of one acquisition is at
\* most 1000 ms in all, and the 1000 ms default is never used.
C19_BackoffSchedule ==
  \A a \in Acquisitions :
    /\ timers[a] \in {<<>>, <<250>>, <<250, 750>>}
    /\ Sum(timers[a]) <= 1000
    /\ \A i \in DOMAIN timers[a] : timers[a][i] # 1000
    /\ acquire[a] = "delay" => Len(timers[a]) = attempt[a]
    /\ acquire[a] \in {"getIDToken", "fetch"} => Len(timers[a]) = attempt[a] - 1
    /\ (Settled(a) /\ results[a] # <<>>) => Len(timers[a]) = Len(results[a]) - 1
    /\ (Settled(a) /\ results[a] = <<>>) => timers[a] = <<>>

\* both delays were awaited and the acquisition is over
C19_Witness ==
  \E a \in Acquisitions :
    /\ Settled(a)
    /\ timers[a] = <<250, 750>>
    /\ Len(results[a]) = 3

\* C20: when all 3 attempts fail, the acquisition throws the error of the
\* third attempt and returns no token.
C20_LastErrorSurfaces ==
  \A a \in Acquisitions :
    (Len(results[a]) = 3 /\ \A i \in 1..3 : ~results[a][i].returned) =>
      /\ Settled(a)
      /\ ~outcome[a].returned
      /\ outcome[a].error = results[a][3].error
      /\ (Len(exchanges[a]) = 3 /\ ~exchanges[a][3].answer.returned) =>
           outcome[a].error = exchanges[a][3].answer.error
      /\ (Len(exchanges[a]) = 3 /\ exchanges[a][3].answer.returned) =>
           /\ outcome[a].error.message[1] \in {"Token exchange failed",
                                            "Token exchange response is missing token",
                                            "Unexpected token"}
           /\ ~ResponseOk(exchanges[a][3].answer.value) =>
                SubSeq(outcome[a].error.message, 3, 5)
                  = NumberToString(exchanges[a][3].answer.value.status)

\* a 500, a timeout and a reset: the reset is thrown
C20_Witness ==
  \E a \in Acquisitions :
    /\ Settled(a)
    /\ Len(exchanges[a]) = 3
    /\ AnsweredWith(a, 1, 500)
    /\ exchanges[a][2].answer = Threw(Error("Error", <<"connect ", "ETIMEDOUT">>))
    /\ exchanges[a][3].answer = Threw(Error("Error", <<"read ", "ECONNRESET">>))
    /\ outcome[a] = Threw(Error("Error", <<"read ", "ECONNRESET">>))

\* ------------------------------------------------------------ fallback path

\* a variable of process.env that is unset, or set to the empty string
Unset(name) == processEnv[name] \in {Undefined, Str(<<>>)}

\* one of the two variables of the identity-token endpoint is unset
OidcUnavailable ==
  Unset("ACTIONS_ID_TOKEN_REQUEST_URL") \/ Unset("ACTIONS_ID_TOKEN_REQUEST_TOKEN")

\* C21: when OIDC is unavailable the acquisition requests no identity token,
\* sends no exchange request and awaits no delay; it is over after its
\* first step, with a locally supplied token returned or an error thrown.
C21_FallbackSingleStep ==
  \A a \in Acquisitions :
    OidcUnavailable =>
      /\ acquire[a] \in {"idle", "settled"}
      /\ attempt[a] = 0
      /\ issued = 0
      /\ idToken[a] = Undefined
      /\ exchanges[a] = <<>>
      /\ results[a] = <<>>
      /\ timers[a] = <<>>
      /\ Settled(a) =>
           \/ /\ outcome[a].returned
              /\ outcome[a].value \in {processEnv["GH_TOKEN"], processEnv["GITHUB_TOKEN"]}
           \/ /\ ~outcome[a].returned
              /\ outcome[a].error.message = <<"GitHub API token is missing">>

\* the request URL is set but the request token is not, and the local token
\* was returned
C21_Witness ==
  \E a \in Acquisitions :
    /\ Settled(a)
    /\ ~Unset("ACTIONS_ID_TOKEN_REQUEST_URL")
    /\ processEnv["ACTIONS_ID_TOKEN_REQUEST_TOKEN"] = Undefined
    /\ outcome[a].returned
    /\ exchanges[a] = <<>>

\* ------------------------------------------------------------ memoization

\* the calls of acquireClank8yBotToken that were made
Started == {a \in Acquisitions : acquire[a] # "idle"}

\* the calls of getClank8yBotToken that were made
Called == {c \in Callers : caller[c] # "idle"}

\* C22: however many calls of getClank8yBotToken are made, and however they
\* interleave with the acquisition, one acquisition is started (one sequence
\* of identity-token requests and exchange calls), every caller awaits its
\* promise, and every caller gets its result.
C22_OneAcquisition ==
  /\ Cardinality(Started) <= 1
  /\ Called # {} => Cardinality(Started) = 1
  /\ \A a \in Acquisitions \ Started : exchanges[a] = <<>> /\ results[a] = <<>>
  /\ issued <= 3
  /\ \A c1, c2 \in Called : awaited[c1] = awaited[c2]
  /\ \A c \in Called : awaited[c].of \in Started
  /\ \A c \in Callers :
       caller[c] = "done" =>
         /\ Settled(awaited[c].of)
         /\ received[c] = outcome[awaited[c].of]

\* three calls were made while the exchange request was in flight
C22_Witness ==
  /\ Cardinality({c \in Callers : caller[c] = "awaiting"}) >= 3
  /\ \E a \in Started : acquire[a] = "fetch"

\* C23: the memoized promise is assigned at most once in a process, by the
\* first caller; once assigned it is never reset or overwritten, and every
\* caller reads that promise.
C23_SingleAssignment ==
  /\ [](/\ written <= 1
        /\ written = 0 <=> clank8yBotTokenPromise = Null
        /\ written = 0 <=> Called = {}
        /\ \A c \in Called : awaited[c] = clank8yBotTokenPromise)
  /\ [][clank8yBotTokenPromise # Null =>
          clank8yBotTokenPromise' = clank8yBotTokenPromise]_vars

\* the acquisition has failed, every caller has got the error, and the
\* promise is still the one that was assigned
C23_Witness ==
  /\ written = 1
  /\ clank8yBotTokenPromise = Promise(1)
  /\ Settled(1)
  /\ ~outcome[1].returned
  /\ \A c \in Callers : caller[c] = "done" /\ received[c] = outcome[1]

\* ------------------------------------------------------------ across requests

\* the metadata fetches made for h
RepositoryFetches(h) == {i \in DOMAIN calls[h] : calls[h][i].op = OpRepository}

\* the default branch that the metadata fetch of h was answered with
Answered(h) == replies[h][2].data.default_branch

\* the metadata fetch of h was answered with a default branch
BranchAnswered(h) ==
  /\ Len(replies[h]) >= 2
  /\ replies[h][2].ok
  /\ Answered(h) \in {Str(main), Str(dev)}

\* C24: the default branch is never kept from one request to another: a
\* request that gets to phase 2 has made one metadata fetch of its own, and
\* phase 2 compares the token's ref with the branch that fetch was answered
\* with; so a token whose ref names the branch another request saw, but not
\* the one this request is answered with, is rejected.
C24_SnapshotNotCached ==
  \A h \in Handlers :
    /\ Cardinality(RepositoryFetches(h)) <= 1
    /\ Fetched(h) => BranchAnswered(h)
    /\ BranchAnswered(h) =>
         /\ RepositoryFetches(h) = {2}
         /\ defaultBranch[h] = Answered(h)
         /\ Issued(h, OpMint) => Claims(h).ref = Str(BranchRef(Answered(h).v))
         /\ Claims(h).ref # Str(BranchRef(Answered(h).v)) => Unauthorized(h)

\* the same token for the same repository: minted for while the default
\* branch was main, rejected by the request that was answered dev
C24_Witness ==
  \E h1, h2 \in Handlers :
    /\ oidcToken[h1] = oidcToken[h2]
    /\ rawPayload[h1] = rawPayload[h2]
    /\ defaultBranch[h1] = Str(main)
    /\ ReturnsToken(h1)
    /\ BranchAnswered(h2)
    /\ Answered(h2) = Str(dev)
    /\ Unauthorized(h2)

\* the mint calls made for h
Mints(h) == {i \in DOMAIN calls[h] : calls[h][i].op = OpMint}

\* C25: minting is not idempotent: every successful exchange has a mint
\* call of its own and returns the token that call produced, so two
\* successful exchanges for the same valid request cause two mint calls and
\* return the two tokens of those calls; no request is answered with a
\* token minted for another.
C25_MintNotIdempotent ==
  /\ \A h \in Handlers :
       ReturnsToken(h) =>
         /\ Mints(h) = {3}
         /\ replies[h][3].ok
         /\ response[h].body.token = replies[h][3].data.token
         /\ response[h].body.expires_at = replies[h][3].data.expires_at
  /\ \A h1, h2 \in Handlers :
       (h1 # h2 /\ ReturnsToken(h1) /\ ReturnsToken(h2)) =>
         Cardinality(Mints(h1)) + Cardinality(Mints(h2)) = 2

\* two successful exchanges for the same request, with two tokens
C25_Witness ==
  \E h1, h2 \in Handlers :
    /\ h1 # h2
    /\ oidcToken[h1] = oidcToken[h2]
    /\ rawPayload[h1] = rawPayload[h2]
    /\ ReturnsToken(h1)
    /\ ReturnsToken(h2)
    /\ response[h1].body.token = "ghs_a"
    /\ response[h2].body.token = "ghs_b"

\* the calls of one kind made for h
CallsOf(h, op) == {i \in DOMAIN calls[h] : calls[h][i].op = op}

\* C26: no step of the broker is retried: for one request the installation
\* lookup, the metadata fetch and the mint are each issued at most once, and
\* a call that fails is the last call of the request.
C26_NoInternalRetry ==
  \A h \in Handlers :
    /\ \A op \in {OpInstallation, OpRepository, OpMint} :
         Cardinality(CallsOf(h, op)) <= 1
    /\ Len(calls[h]) <= 3
    /\ \A i \in DOMAIN replies[h] :
         ~replies[h][i].ok => (Done(h) /\ Len(calls[h]) = i /\ Status(h) # 200)

\* the mint failed after one lookup and one fetch, and the request is over
C26_Witness ==
  \E h \in Handlers :
    /\ Done(h)
    /\ Len(calls[h]) = 3
    /\ Len(replies[h]) = 3
    /\ ~replies[h][3].ok
    /\ \A op \in {OpInstallation, OpRepository, OpMint} :
         Cardinality(CallsOf(h, op)) = 1

\* ------------------------------------------------------------ independence

\* the response to a request and the platform calls made for it when it is
\* served alone: by its header, its body, its bearer token and the answers
\* the platform gave to its calls (with an answer missing, it still waits)
ServedAlone(header, body, token, upstream) ==
  LET result == TokenRequestSchema(body)
      o == result.output.owner
      r == result.output.repo
      phase1 == verifyOidcTokenBasicClaims(token, o, r)
      id == upstream[1].data.id
      branch == upstream[2].data.default_branch
      lookup == <<GetInstallation(o, r)>>
      fetch == lookup \o <<GetRepository(id, o, r)>>
      mint == fetch \o <<MintRequest(id, r)>>
  IN IF ~Configured THEN [response |-> NotConfigured, calls |-> <<>>]
     ELSE IF ~WellFormedBearer(header) THEN [response |-> HeaderRejected, calls |-> <<>>]
     ELSE IF ~result.success THEN [response |-> BodyRejected, calls |-> <<>>]
     ELSE IF ~phase1.success THEN [response |-> BasicClaimsRejected, calls |-> <<>>]
     ELSE IF Len(upstream) < 1 THEN [response |-> NoResponse, calls |-> lookup]
     ELSE IF ~upstream[1].ok THEN [response |-> InstallationFailed, calls |-> lookup]
     ELSE IF Len(upstream) < 2 THEN [response |-> NoResponse, calls |-> fetch]
     ELSE IF ~upstream[2].ok THEN [response |-> RepositoryFailed, calls |-> fetch]
     ELSE IF branch \notin {Str(main), Str(dev)}
          THEN [response |-> NoDefaultBranch, calls |-> fetch]
     ELSE IF ~verifyOidcTokenRefClaims(phase1.output, o, r, branch.v, result.output.run_id)
          THEN [response |-> RefClaimsRejected, calls |-> fetch]
     ELSE IF Len(upstream) < 3 THEN [response |-> NoResponse, calls |-> mint]
     ELSE IF ~upstream[3].ok THEN [response |-> MintFailed, calls |-> mint]
     ELSE [response |-> [status |-> 200,
                         body |-> [token |-> upstream[3].data.token,
                                   expires_at |-> upstream[3].data.expires_at]],
           calls |-> mint]

\* everything the process holds for one request
RequestState(h) ==
  <<pc[h], authorization[h], requestBody[h], rawPayload[h], oidcToken[h], owner[h], repo[h], runId[h],
    oidcPayload[h], installationId[h], defaultBranch[h], tokenResponse[h], calls[h],
    replies[h], response[h]>>

\* C27: requests served concurrently are independent: in every interleaving
\* the response to a request and the platform calls made for it are those
\* of the request served alone with the same upstream answers, and no step
\* taken for one request changes anything held for another.
C27_RequestsIndependent ==
  /\ [](\A h \in Handlers :
          Done(h) =>
            LET alone == ServedAlone(authorization[h], rawPayload[h], oidcToken[h],
                                     replies[h])
            IN response[h] = alone.response /\ calls[h] = alone.calls)
  /\ [][/\ env' = env
        /\ \A h1, h2 \in Handlers :
             h1 # h2 =>
               \/ RequestState(h1)' = RequestState(h1)
               \/ RequestState(h2)' = RequestState(h2)]_vars

\* one request was given a token and the other, with a token for another
\* branch, was rejected in phase 2
C27_Witness ==
  \E h1, h2 \in Handlers :
    /\ ReturnsToken(h1)
    /\ Unauthorized(h2)
    /\ Fetched(h2)
    /\ defaultBranch[h1] = defaultBranch[h2]
    /\ oidcToken[h1] # oidcToken[h2]

\* ------------------------------------------------------------ configuration

C29_FallbackReturnsToken ==
  \A a \in Acquisitions :
    (OidcUnavailable /\ Settled(a)) =>
      IF ~Unset("GH_TOKEN")
      THEN outcome[a] = Returned(processEnv["GH_TOKEN"])
      ELSE IF ~Unset("GITHUB_TOKEN")
           THEN outcome[a] = Returned(processEnv["GITHUB_TOKEN"])
           ELSE ~outcome[a].returned

\* ------------------------------------------------------------ run_id normalisation

\* the ways a request body gives run n: the number, its decimal string, and
\* that string padded with whitespace
RunIdForms(n) ==
  { Num(n), Str(NumberToString(n)), Str(<<" ">> \o NumberToString(n) \o <<" ">>) }

\* C30: run_id may be a string or a number and is used as a trimmed
\* non-empty string: a body that gives run n as the number n, as the string
\* of n or as that string padded is taken to name the string of n, and the
\* response and the platform calls of the request are those of the same
\* request with run_id in any other of these forms; a run_id that is empty
\* or only whitespace is answered 400.
C30_RunIdNormalized ==
  \A h \in Handlers :
    (BodyRead(h) /\ rawPayload[h].t = "object") =>
      /\ \A n \in RunIds :
           rawPayload[h].run_id \in RunIdForms(n) =>
             /\ runId[h] # Undefined => runId[h] = Str(NumberToString(n))
             /\ Done(h) =>
                  \A form \in RunIdForms(n) :
                    LET alone == ServedAlone(authorization[h],
                                             [rawPayload[h] EXCEPT !.run_id = form],
                                             oidcToken[h], replies[h])
                    IN response[h] = alone.response /\ calls[h] = alone.calls
      /\ (/\ Configured
          /\ WellFormedBearer(authorization[h])
          /\ IsString(rawPayload[h].run_id)
          /\ Trim(rawPayload[h].run_id.v) = <<>>) =>
           Done(h) /\ Status(h) = 400 /\ calls[h] = <<>>

\* a request that gave its run as a number was given a token for the run
\* named by the string of that number
C30_Witness ==
  \E h \in Handlers :
    /\ rawPayload[h].t = "object"
    /\ rawPayload[h].run_id = Num(1)
    /\ runId[h] = Str(<<"1">>)
    /\ ReturnsToken(h)

\* ------------------------------------------------------------ retry classification

\* the answer to an exchange request is a failure of a transient class: an
\* abort, a connection reset, a timeout, a generic network failure, or an
\* error response (one that is not 2xx)
TransientClass(answer) ==
  IF answer.returned
  THEN answer.value.status \notin 200..299
  ELSE answer.error \in
         { Error("AbortError", <<"This operation was aborted">>),
           Error("Error", <<"read ", "ECONNRESET">>),
           Error("Error", <<"connect ", "ETIMEDOUT">>),
           Error("TypeError", <<"fetch failed">>) }

\* attempt i of a failed with a failure of a transient class
TransientFailure(a, i) ==
  /\ i \in DOMAIN exchanges[a]
  /\ exchanges[a][i].answer # Undefined
  /\ TransientClass(exchanges[a][i].answer)

RECURSIVE Count(_, _)
Count(calls_, op) ==
  IF calls_ = <<>> THEN 0
  ELSE (IF Head(calls_) = op THEN 1 ELSE 0) + Count(Tail(calls_), op)

\* C32: every attempt requests an identity token and sends the token that
\* request returned: the identity-token requests of an acquisition are as
\* many as its attempts, every exchange call comes right after the
\* identity-token request of its attempt, the token in flight is the one
\* just returned, and no two exchange calls carry the same token.
C32_FreshIdentityToken ==
  \A a \in Acquisitions :
    /\ Count(trace[a], "getIDToken") = attempt[a]
    /\ Count(trace[a], "fetch") = Len(exchanges[a])
    /\ \A j \in DOMAIN trace[a] :
         trace[a][j] = "fetch" => (j > 1 /\ trace[a][j - 1] = "getIDToken")
    /\ acquire[a] = "fetch" =>
         exchanges[a][Len(exchanges[a])].authorization = <<"Bearer", " ">> \o idToken[a].v
    /\ \A i, j \in DOMAIN exchanges[a] :
         i # j => exchanges[a][i].authorization # exchanges[a][j].authorization

\* three attempts, each with its identity-token request and its exchange call
C32_Witness ==
  \E a \in Acquisitions :
    /\ attempt[a] = 3
    /\ trace[a] = <<"getIDToken", "fetch", "getIDToken", "fetch", "getIDToken", "fetch">>
    /\ Len(exchanges[a]) = 3

\* ------------------------------------------------------------ payload shape

\* one of the four claims of phase 1 is absent or not a string
BasicShapeBad(h) ==
  \/ ~IsString(Claims(h).repository)
  \/ ~IsString(Claims(h).repository_owner)
  \/ ~IsString(Claims(h).event_name)
  \/ ~IsString(Claims(h).runner_environment)

\* ref or job_workflow_ref is absent or not a string, or run_id is absent,
\* empty (blank) or neither a string nor a number
RefShapeBad(h) ==
  \/ ~IsString(Claims(h).ref)
  \/ ~IsString(Claims(h).job_workflow_ref)
  \/ ~(IsString(Claims(h).run_id) \/ IsNumber(Claims(h).run_id))
  \/ IsString(Claims(h).run_id) /\ Trim(Claims(h).run_id.v) = <<>>

\* C33: a signature-verified payload of unexpected shape is rejected with
\* 401 and never leads to a token.  A phase-1 claim that is absent or not a
\* string: 401, no platform call.  ref, job_workflow_ref or run_id of
\* unexpected shape: no mint call and no token, 401 once the default branch
\* is resolved, and a 500 only for a platform call that failed before that.
C33_MisshapenPayloadUnauthorized ==
  \A h \in Handlers :
    SignatureVerified(h) =>
      /\ BasicShapeBad(h) => (Unauthorized(h) /\ calls[h] = <<>>)
      /\ RefShapeBad(h) =>
           /\ ~Issued(h, OpMint)
           /\ ~ReturnsToken(h)
           /\ Fetched(h) => Unauthorized(h)
           /\ (Done(h) /\ Status(h) # 401) =>
                /\ Status(h) = 500
                /\ calls[h] # <<>>
                /\ Len(replies[h]) = Len(calls[h])
                /\ CallFailed(h, Len(calls[h]))

\* a verified token without a run_id claim, every other claim matching, was
\* rejected with 401 after the repository fetch
C33_Witness ==
  \E h \in Handlers :
    /\ SignatureVerified(h)
    /\ Claims(h) = [GoodPayload EXCEPT !.run_id = Undefined]
    /\ Fetched(h) /\ defaultBranch[h] = Str(main)
    /\ Len(calls[h]) = 2
    /\ Unauthorized(h)

\* ------------------------------------------------------------ failed exchange

\* the acquisition took the OIDC path and ended with an error
ExchangeFailed(a) ==
  /\ ~OidcUnavailable
  /\ Settled(a)
  /\ ~outcome[a].returned

\* on the OIDC path no acquisition returns the locally supplied token, and
\* after a failed exchange no client is constructed and no tool is given one
NoFallbackNoClient ==
  \A a \in Acquisitions :
    /\ (~OidcUnavailable /\ Settled(a)) =>
         outcome[a] \notin {Returned(processEnv["GH_TOKEN"]),
                            Returned(processEnv["GITHUB_TOKEN"])}
    /\ ExchangeFailed(a) =>
         /\ Constructed = {}
         /\ octokit = Null
         /\ \A t \in Tools : tool[t] = "done" => toolResult[t].isError

\* C34: when the exchange fails on the OIDC path, the client does not fall
\* back to GH_TOKEN/GITHUB_TOKEN and constructs no API client, and the run
\* does not end without being marked failed.
C34_FailedExchangeFailsRun ==
  /\ NoFallbackNoClient
  /\ \A a \in Acquisitions :
       (ExchangeFailed(a) /\ run = "exited") => failed # Null

\* ------------------------------------------------------------ header before body

\* C35: the Authorization header is checked before the body is validated: a
\* request whose header is missing or malformed and whose body is malformed
\* too is answered 401 and not 400; its body is not even read, and no
\* platform call is made.
C35_HeaderBeforeBody ==
  \A h \in Handlers :
    (/\ Configured
     /\ Received(h)
     /\ ~WellFormedBearer(authorization[h])
     /\ ~WellFormedBody(requestBody[h])) =>
      /\ Done(h)
      /\ Status(h) = 401
      /\ response[h] = HeaderRejected
      /\ rawPayload[h] = Undefined
      /\ calls[h] = <<>>

\* a request without an Authorization header and with a body that is not
\* JSON was answered 401
C35_Witness ==
  \E h \in Handlers :
    /\ Configured
    /\ authorization[h] = Null
    /\ requestBody[h] = Null
    /\ Status(h) = 401

\* ------------------------------------------------------------ sticky failure

\* the memoized promise has rejected
Rejected ==
  /\ clank8yBotTokenPromise # Null
  /\ Settled(clank8yBotTokenPromise.of)
  /\ ~outcome[clank8yBotTokenPromise.of].returned

\* C36: once the memoized promise has rejected it stays the memoized,
\* rejected promise: every call made from then on awaits it, every caller
\* that has returned got its rejection, and no step from then on requests an
\* identity token, sends an exchange request or starts an acquisition.
C36_FailureSticky ==
  /\ [](Rejected =>
          \A c \in Callers :
            caller[c] = "done" => received[c] = outcome[clank8yBotTokenPromise.of])
  /\ [][Rejected =>
          /\ clank8yBotTokenPromise' = clank8yBotTokenPromise
          /\ Rejected'
          /\ <<acquire, attempt, issued, trace, exchanges, outcome>>'
               = <<acquire, attempt, issued, trace, exchanges, outcome>>
          /\ \A c \in Callers :
               (caller[c] = "idle" /\ caller'[c] # "idle") =>
                 awaited'[c] = clank8yBotTokenPromise]_vars

\* the exchange was rejected with a 401 three times, and three callers have
\* got the error of the third
C36_Witness ==
  /\ Rejected
  /\ Len(exchanges[clank8yBotTokenPromise.of]) = 3
  /\ AnsweredWith(clank8yBotTokenPromise.of, 3, 401)
  /\ Cardinality({c \in Callers :
                    /\ caller[c] = "done"
                    /\ received[c] = outcome[clank8yBotTokenPromise.of]}) >= 3

\* ------------------------------------------------------------ one client

\* the tool calls that were given a client
GivenClient == {t \in Tools : tool[t] = "done" /\ ~toolResult[t].isError}

\* C37: however many tools ask for the client, and however their calls
\* interleave with the acquisition, clank8yOctokit is called once and at most
\* one client is constructed in the process; the token is registered as a
\* secret right before the client is constructed with it; and every tool
\* that is given a client is given that one.
C37_OneClient ==
  /\ Cardinality({k \in Callers : construct[k] # "idle"}) <= 1
  /\ Cardinality(Constructed) <= 1
  /\ \A i \in Constructed :
       /\ i > 1
       /\ clientLog[i - 1] = [op |-> "setSecret", value |-> clientLog[i].auth]
  /\ \A t1, t2 \in Tools :
       (tool[t1] # "idle" /\ tool[t2] # "idle") => toolAwaited[t1] = toolAwaited[t2]
  /\ \A t \in GivenClient :
       /\ Cardinality(Constructed) = 1
       /\ toolResult[t].client = octokit
       /\ octokit.auth = outcome[1].value

\* three tools were given the one client, constructed with the token the
\* exchange returned
C37_Witness ==
  /\ Cardinality(GivenClient) >= 3
  /\ Cardinality(Constructed) = 1
  /\ exchanges[1] # <<>>
  /\ octokit = Octokit(Str(<<"ghs_a">>), 1)

\* ------------------------------------------------------------ staged comments

\* the elements of a sequence
Range(seq) == {seq[i] : i \in DOMAIN seq}

\* the review a submission created
ReviewBy(s) == {i \in DOMAIN reviews : reviews[i].by = s}

\* C38: every comment that was staged is still staged or is among the
\* comments of a review that was created, and the comment_count a submission
\* reports is the number of comments of the review it created.
C38_NoStagedCommentLost ==
  /\ \A comment \in staged :
       \/ comment \in Range(stagedComments)
       \/ \E i \in DOMAIN reviews : ApiComment(comment) \in Range(reviews[i].comments)
  /\ \A s \in Submits :
       (submit[s] = "done" /\ ~submitResult[s].isError) =>
         \A i \in ReviewBy(s) :
           submitResult[s].comment_count = Len(reviews[i].comments)

\* the step in which submission s ends with an error result
SubmitFailed(s) ==
  /\ submit[s] # "done"
  /\ submit'[s] = "done"
  /\ submitResult'[s].isError

\* the step in which submission s is answered that its review was created
ReviewCreated(s) ==
  /\ submit[s] = "createReview"
  /\ submit'[s] = "done"
  /\ submitResult'[s] = Submitted(submitResult'[s].comment_count)
  /\ reviews' = Append(reviews, [by |-> s, comments |-> apiComments[s]])

\* the step takes something out of the staged state
Unstaged ==
  \/ Range(stagedComments) \ Range(stagedComments') # {}
  \/ reviewedFiles \ reviewedFiles' # {}

\* C39: a step that takes a comment out of the staged comments or a file out
\* of the reviewed files is the step in which a submission learns that its
\* review was created, and then both are emptied; a step in which a
\* submission fails gives it an error result and leaves the staged comments,
\* the reviewed files and the reviews as they were.
C39_ClearedOnlyAfterSuccess ==
  [][ /\ Unstaged =>
           /\ \E s \in Submits : ReviewCreated(s)
           /\ stagedComments' = <<>>
           /\ reviewedFiles' = {}
      /\ \A s \in Submits :
           /\ SubmitFailed(s) =>
                /\ submitResult'[s] \in {ToolError(<<"submit staged review">> \o MessageOf(e)) :
                                           e \in SubmitThrows}
                /\ UNCHANGED <<stagedComments, reviewedFiles, reviews>>
           /\ (submit[s] # "done" /\ submit'[s] = "done") =>
                SubmitFailed(s) \/ ReviewCreated(s) ]_vars

\* a submission failed at pulls.createReview with comments and files staged,
\* and the next one sent exactly those comments
C39_Witness ==
  /\ submit[1] = "done" /\ submit[2] = "done"
  /\ submitResult[1].isError
  /\ Len(apiComments[1]) > 1
  /\ ~submitResult[2].isError
  /\ submitResult[2].comment_count = Len(apiComments[1])
  /\ \E i \in ReviewBy(2) : reviews[i].comments = apiComments[1]

\* ------------------------------------------------------------ the local server is stopped

\* the review function has returned or thrown
ReviewFinished == review \in {"returned", "threw"}

\* github.start() resolved: the local server was started
ServerStarted == "github.start" \in Range(stops)

\* C40: whenever the review function has finished, returning or throwing,
\* after the local server was started, the server's status is 'stopped'.
C40_StartedServerStopped ==
  (ReviewFinished /\ ServerStarted) => mcpStatus.state = "stopped"

\* the part that holds: the server is stopped whenever the review function
\* finished after a start, unless client.stop() or the server's close() threw;
\* failures of createSession, sendAndWait and session.destroy do not matter,
\* and the error thrown is then the last of these failures
StoppedUnlessTheStopsFail ==
  (ReviewFinished /\ ServerStarted) =>
    \/ /\ mcpStatus.state = "stopped"
       /\ stops = <<"github.start", "client.stop", "github.stop">>
       /\ review = "threw" <=> thrown # Null
    \/ thrown = AgentThrows("client.stop") /\ "github.stop" \notin Range(stops)
    \/ thrown = AgentThrows("github.stop")

====
